---- MODULE Spec2Model ----
(***************************************************************************)
(* smart-relay: a header-directed HTTP relay.                              *)
(*                                                                         *)
(* The request-forwarding engine (request-handlers.js, proxy.js,           *)
(* error-handlers.js, utils.js) as a state machine over the inbound        *)
(* requests in flight, plus the pure construction of the outbound request  *)
(* options.                                                                *)
(*                                                                         *)
(* Strings that the code parses (the destination header, req.url) are      *)
(* sequences of lexemes: each lexeme is one of the delimiters ":", "/",    *)
(* "?", "#", "@" or a maximal run of other characters, so "http://h/api?x=1" *)
(* is <<"http", ":", "/", "/", "h", "/", "api", "?", "x=1">>.  Strings that *)
(* the code only copies or interpolates are TLA+ strings.                  *)
(***************************************************************************)
EXTENDS FiniteSets, Integers, Sequences, TLC

VARIABLES
    inbound,     \* inbound[r]: the IncomingMessage of cycle r (<<>> before it arrives)
    calls,       \* calls[r]: the handlers handleRequest dispatched to, in order
    outbound,    \* outbound[r]: the outbound requests created for cycle r, in order
    upstream,    \* upstream[r]: what the outbound exchange of cycle r has done
    clientRes,   \* clientRes[r]: the ServerResponse of cycle r
    log,         \* log[r]: the log lines emitted by cycle r
    crashed,     \* an exception escaped a callback: the process is gone
    inStream,    \* inStream[r]: the body stream of the inbound request of cycle r
    outStream,   \* outStream[r]: the body written to the outbound request of cycle r
    tunnel,      \* the tunnel start operation: its configuration and its progress
    callbacks,   \* the POST requests sent to the callback URL, in order
    fnIn,        \* argument of the pure function under check
    fnOut        \* <<>> before the call, <<result>> after it

vars ==
    <<inbound, calls, outbound, upstream, clientRes, log, crashed, inStream, outStream,
      tunnel, callbacks, fnIn, fnOut>>

coreVars ==
    <<inbound, calls, outbound, upstream, clientRes, log, crashed, inStream, outStream>>

streamVars == <<inStream, outStream>>

tunnelVars == <<tunnel, callbacks>>

fnVars == <<fnIn, fnOut>>

-----------------------------------------------------------------------------
(* Bounds *)

NumReqs == 2

MaxChunks == 2

MaxSegs == 2

NumStreams == 1

MaxBody == 2

-----------------------------------------------------------------------------
(* JavaScript values *)

null == "<null>"

undefined == "<undefined>"

\* JavaScript truthiness of a string-or-null-or-undefined value
Truthy(v) == v \notin {null, undefined, ""}

\* a || b
OrElse(a, b) == IF Truthy(a) THEN a ELSE b

\* String.prototype.toLowerCase on the names the model uses
Lower(s) ==
    CASE s = "Host" -> "host"
      [] s = "HTTPS" -> "https"
      [] s = "HTTP" -> "http"
      [] s = "Example.COM" -> "example.com"
      [] OTHER -> s

-----------------------------------------------------------------------------
(* Lexeme strings *)

Delims == {":", "/", "?", "#", "@"}

RECURSIVE Text(_)
\* the TLA+ string a lexeme string spells
Text(s) == IF s = <<>> THEN "" ELSE Head(s) \o Text(Tail(s))

RECURSIVE IndexOf(_, _, _)
\* index of the first lexeme of s, at or after i, that belongs to D; 0 if none
IndexOf(s, D, i) ==
    IF i > Len(s) THEN 0
    ELSE IF s[i] \in D THEN i
    ELSE IndexOf(s, D, i + 1)

Drop(s, n) == SubSeq(s, n + 1, Len(s))

Take(s, n) == SubSeq(s, 1, n)

StartsWithSlashes(s) == Len(s) >= 2 /\ s[1] = "/" /\ s[2] = "/"

RECURSIVE SplitAcc(_, _)
SplitAcc(p, cur) ==
    IF p = <<>> THEN <<cur>>
    ELSE IF Head(p) = "/" THEN <<cur>> \o SplitAcc(Tail(p), "")
    ELSE SplitAcc(Tail(p), cur \o Head(p))

\* pathname.split('/')
Split(p) == SplitAcc(p, "")

Lexeme(seg) == IF seg = "" THEN <<>> ELSE <<seg>>

RECURSIVE Join(_)
\* segments.join('/')
Join(segs) ==
    IF segs = <<>> THEN <<>>
    ELSE IF Len(segs) = 1 THEN Lexeme(segs[1])
    ELSE Lexeme(Head(segs)) \o <<"/">> \o Join(Tail(segs))

-----------------------------------------------------------------------------
(* Node's legacy url module, as the relay uses it.  Fields that hold parsed *)
(* text (pathname, search, hash, path) are lexeme strings, <<>> for        *)
(* null; protocol, host, hostname and port are strings or null.            *)

slashedProtocol == {"http:", "https:", "ftp:", "gopher:", "file:", "ws:", "wss:"}

hostlessProtocol == {"javascript:"}

\* simplePathPattern: "/" or "//" not followed by another "/", then no "#"
SimplePath(s) ==
    /\ Len(s) >= 1 /\ s[1] = "/"
    /\ ~(Len(s) >= 3 /\ s[2] = "/" /\ s[3] = "/")
    /\ IndexOf(s, {"#"}, 1) = 0

\* the fields of a parsed URL; path is pathname + search, and pathname is "/"
\* when a slashed protocol has a hostname and no pathname
UrlFields(protocol, slashes, host, hostname, port, pathname, search, hash) ==
    [protocol |-> protocol, slashes |-> slashes, host |-> host,
     hostname |-> hostname, port |-> port,
     pathname |-> pathname, search |-> search, hash |-> hash,
     path |-> pathname \o search]

DefaultPathname(pathname, protocol, hostname) ==
    IF protocol \in slashedProtocol /\ Truthy(hostname) /\ pathname = <<>>
    THEN <<"/">> ELSE pathname

\* noHash is what precedes the first "#": search starts at its first "?"
ParseSearch(noHash, questionIdx, hash, protocol, slashes, hostname, port, host) ==
    UrlFields(protocol, slashes, host, hostname, port,
              DefaultPathname(IF questionIdx = 0 THEN noHash ELSE Take(noHash, questionIdx - 1),
                              protocol, hostname),
              IF questionIdx = 0 THEN <<>> ELSE Drop(noHash, questionIdx - 1),
              hash)

ParseHash(noHash, hash, protocol, slashes, hostname, port, host) ==
    ParseSearch(noHash, IndexOf(noHash, {"?"}, 1), hash, protocol, slashes, hostname, port, host)

ParseRestAt(rest, hashIdx, protocol, slashes, hostname, port, host) ==
    ParseHash(IF hashIdx = 0 THEN rest ELSE Take(rest, hashIdx - 1),
              IF hashIdx = 0 THEN <<>> ELSE Drop(rest, hashIdx - 1),
              protocol, slashes, hostname, port, host)

\* the part of parse() after the host has been taken off: hash, search, pathname, path
ParseRest(rest, protocol, slashes, hostname, port, host) ==
    ParseRestAt(rest, IndexOf(rest, {"#"}, 1), protocol, slashes, hostname, port, host)

HostString(hostname, port) == hostname \o (IF port = null THEN "" ELSE ":" \o port)

\* parseHost(): h is hostname[:port] (port lexemes of the model are digit
\* runs, so portPattern matches them); hostnames are lower-cased
ParseHostPort(h, colon, after, protocol, slashes) ==
    ParseRest(after, protocol, slashes,
              Lower(Text(IF colon = 0 THEN h ELSE Take(h, colon - 1))),
              IF colon = 0 \/ colon = Len(h) THEN null ELSE Text(Drop(h, colon)),
              HostString(Lower(Text(IF colon = 0 THEN h ELSE Take(h, colon - 1))),
                         IF colon = 0 \/ colon = Len(h) THEN null ELSE Text(Drop(h, colon))))

RECURSIVE LastIndexOf(_, _, _)
\* index of the last lexeme of s, at or before i, that is d; 0 if none
LastIndexOf(s, d, i) ==
    IF i = 0 THEN 0
    ELSE IF s[i] = d THEN i
    ELSE LastIndexOf(s, d, i - 1)

\* the auth of a host part is what precedes its last "@"
AuthOf(h) ==
    IF LastIndexOf(h, "@", Len(h)) = 0 THEN <<>> ELSE Take(h, LastIndexOf(h, "@", Len(h)) - 1)

StripAuth(h) == Drop(h, LastIndexOf(h, "@", Len(h)))

\* decodeURIComponent throws URIError on a malformed escape: of the lexemes
\* the model uses, "%E0" (a lone lead byte) and "%" are malformed
MalformedEscapes == {"%E0", "%"}

decodeURIComponentThrows(s) == \E i \in 1..Len(s) : s[i] \in MalformedEscapes

ParseHostAt(rest, hostEnd, protocol, slashes) ==
    ParseHostPort(StripAuth(IF hostEnd = 0 THEN rest ELSE Take(rest, hostEnd - 1)),
                  IndexOf(StripAuth(IF hostEnd = 0 THEN rest ELSE Take(rest, hostEnd - 1)),
                          {":"}, 1),
                  IF hostEnd = 0 THEN <<>> ELSE Drop(rest, hostEnd - 1),
                  protocol, slashes)

\* the host is what precedes the first "/", "?" or "#"
ParseHost(rest, protocol, slashes) ==
    ParseHostAt(rest, IndexOf(rest, {"/", "?", "#"}, 1), protocol, slashes)

\* a host follows when the URL has slashes or a protocol that is not slashed
ParseAfterSlashes(rest, protocol, slashes) ==
    IF protocol \notin hostlessProtocol
       /\ (slashes \/ (protocol # null /\ protocol \notin slashedProtocol))
    THEN ParseHost(rest, protocol, slashes)
    ELSE ParseRest(rest, protocol, slashes, null, null, null)

ParseSlashes(rest, protocol, slashes) ==
    ParseAfterSlashes(IF slashes THEN Drop(rest, 2) ELSE rest, protocol, slashes)

ParseAfterProtocol(rest, protocol, slashesDenoteHost) ==
    ParseSlashes(rest, protocol,
                 /\ slashesDenoteHost \/ protocol # null
                 /\ StartsWithSlashes(rest)
                 /\ protocol \notin hostlessProtocol)

\* protocolPattern: a leading run of scheme characters and a ":"
HasProtocol(s) == Len(s) >= 2 /\ s[1] \notin Delims /\ s[2] = ":"

\* Url.prototype.parse(url, false, slashesDenoteHost)
urlParse(s, slashesDenoteHost) ==
    IF ~slashesDenoteHost /\ SimplePath(s)
    THEN ParseRest(s, null, FALSE, null, null, null)
    ELSE IF HasProtocol(s)
    THEN ParseAfterProtocol(Drop(s, 2), Lower(s[1]) \o ":", slashesDenoteHost)
    ELSE ParseAfterProtocol(s, null, slashesDenoteHost)

\* the host part parse() reads the auth from: what parse() takes as the host,
\* up to the first "/", "?" or "#"; <<>> when the URL has no host
HostPartAt(rest, hostEnd) == IF hostEnd = 0 THEN rest ELSE Take(rest, hostEnd - 1)

HostPartAfter(rest, protocol, slashes) ==
    IF protocol \notin hostlessProtocol
       /\ (slashes \/ (protocol # null /\ protocol \notin slashedProtocol))
    THEN HostPartAt(IF slashes THEN Drop(rest, 2) ELSE rest,
                    IndexOf(IF slashes THEN Drop(rest, 2) ELSE rest, {"/", "?", "#"}, 1))
    ELSE <<>>

HostPartOf(rest, protocol, slashesDenoteHost) ==
    HostPartAfter(rest, protocol,
                  /\ slashesDenoteHost \/ protocol # null
                  /\ StartsWithSlashes(rest)
                  /\ protocol \notin hostlessProtocol)

HostPart(s, slashesDenoteHost) ==
    IF ~slashesDenoteHost /\ SimplePath(s) THEN <<>>
    ELSE IF HasProtocol(s) THEN HostPartOf(Drop(s, 2), Lower(s[1]) \o ":", slashesDenoteHost)
    ELSE HostPartOf(s, null, slashesDenoteHost)

\* this.auth = decodeURIComponent(rest.slice(0, atSign)): parse() throws
\* URIError when the auth of the URL has a malformed escape
urlParseThrows(s, slashesDenoteHost) ==
    decodeURIComponentThrows(AuthOf(HostPart(s, slashesDenoteHost)))

\* Url.prototype.format() of a reference without protocol and host
urlFormat(pathname, search, hash) == pathname \o search \o hash

KeepSegment(looped, seg) == <<Append(looped[1], seg), looped[2]>>

RECURSIVE DotLoop(_, _, _)
\* the loop "strip single dots, resolve double dots to parent dir", from the
\* last segment to the first: <<segments kept, up>>
DotLoop(srcPath, i, up) ==
    IF i = 0 THEN <<<<>>, up>>
    ELSE IF srcPath[i] = "." THEN DotLoop(srcPath, i - 1, up)
    ELSE IF srcPath[i] = ".." THEN DotLoop(srcPath, i - 1, up + 1)
    ELSE IF up > 0 THEN DotLoop(srcPath, i - 1, up - 1)
    ELSE KeepSegment(DotLoop(srcPath, i - 1, 0), srcPath[i])

RECURSIVE Unshift(_, _, _)
\* srcPath.unshift(seg), n times
Unshift(srcPath, seg, n) ==
    IF n = 0 THEN srcPath ELSE Unshift(<<seg>> \o srcPath, seg, n - 1)

\* if (mustEndAbs && !isAbsolute) srcPath.unshift(''); pathname = srcPath.join('/')
ResolveJoin(srcPath, mustEndAbs, search, hash) ==
    urlFormat(Join(IF mustEndAbs /\ ~(srcPath # <<>> /\ srcPath[1] = "")
                   THEN <<"">> \o srcPath ELSE srcPath),
              search, hash)

\* if (hasTrailingSlash && srcPath.join('/').substr(-1) !== '/') srcPath.push('')
ResolveTrailing(srcPath, hasTrailingSlash, mustEndAbs, srcHost, search, hash) ==
    ResolveJoin(IF hasTrailingSlash /\ ~(Len(srcPath) >= 2 /\ srcPath[Len(srcPath)] = "")
                THEN Append(srcPath, "") ELSE srcPath,
                mustEndAbs \/ (srcHost /\ srcPath # <<>>), search, hash)

\* if (mustEndAbs && srcPath[0] !== '' && ...) srcPath.unshift('')
ResolveLeading(srcPath, hasTrailingSlash, mustEndAbs, srcHost, search, hash) ==
    ResolveTrailing(IF mustEndAbs /\ (srcPath = <<>> \/ srcPath[1] # "")
                    THEN <<"">> \o srcPath ELSE srcPath,
                    hasTrailingSlash, mustEndAbs, srcHost, search, hash)

\* a path allowed to go above the root gets its leading ..s back
ResolveUp(looped, hasTrailingSlash, mustEndAbs, srcHost, search, hash) ==
    ResolveLeading(IF ~mustEndAbs THEN Unshift(looped[1], "..", looped[2]) ELSE looped[1],
                   hasTrailingSlash, mustEndAbs, srcHost, search, hash)

\* a path ending in "." or ".." must get a trailing slash
HasTrailingSlash(srcPath, anyHost) ==
    \/ (anyHost \/ Len(srcPath) > 1) /\ srcPath[Len(srcPath)] \in {".", ".."}
    \/ srcPath[Len(srcPath)] = ""

ResolveDots(srcPath, mustEndAbs, srcHost, anyHost, search, hash) ==
    IF srcPath = <<>>
    THEN urlFormat(<<>>, search, hash)                         \* no path at all
    ELSE ResolveUp(DotLoop(srcPath, Len(srcPath), 0), HasTrailingSlash(srcPath, anyHost),
                   mustEndAbs, srcHost, search, hash)

Pop(srcPath) == IF srcPath = <<>> THEN <<>> ELSE Take(srcPath, Len(srcPath) - 1)

\* isRelAbs: take the relative path; a relative path: drop the source's last
\* segment and append; only a search: keep the source's pathname
ResolvePaths(src, rel, srcPath, relPath, isSourceAbs, isRelAbs) ==
    IF ~isRelAbs /\ relPath = <<>> /\ rel.search # <<>>
    THEN urlFormat(src.pathname, rel.search, rel.hash)
    ELSE ResolveDots(IF isRelAbs THEN relPath
                     ELSE IF relPath # <<>> THEN Pop(srcPath) \o relPath
                     ELSE srcPath,
                     isRelAbs \/ isSourceAbs \/ (Truthy(src.host) /\ rel.pathname # <<>>),
                     Truthy(src.host),
                     Truthy(src.host) \/ Truthy(rel.host),
                     IF isRelAbs \/ relPath # <<>> THEN rel.search ELSE src.search,
                     rel.hash)

IsAbs(u) == u.pathname # <<>> /\ u.pathname[1] = "/"

SplitPath(u) == IF u.pathname # <<>> THEN Split(u.pathname) ELSE <<>>

\* Url.prototype.resolveObject, for a source and a relative reference that
\* carry no protocol and no host (the relay passes parsedUrl.path and req.url)
ResolveObject(src, rel) ==
    IF rel.path = <<>> /\ rel.hash = <<>>
    THEN urlFormat(src.pathname, src.search, <<>>)
    ELSE ResolvePaths(src, rel, SplitPath(src), SplitPath(rel),
                      IsAbs(src), Truthy(rel.host) \/ IsAbs(rel))

\* url.resolve(source, relative) = urlParse(source, false, true).resolve(relative)
urlResolve(source, relative) ==
    ResolveObject(urlParse(source, TRUE), urlParse(relative, TRUE))

-----------------------------------------------------------------------------
(* Header objects: a JavaScript object is the sequence of its <<key,       *)
(* value>> properties in insertion order.  Header values are lexeme        *)
(* strings; a value that is not there reads as Undefined.                  *)

Undefined == <<undefined>>

\* !v for a header value
Not(v) == v \in {<<>>, Undefined, <<null>>}

RECURSIVE ObjGet(_, _)
\* obj[key]
ObjGet(obj, key) ==
    IF obj = <<>> THEN Undefined
    ELSE IF Head(obj)[1] = key THEN Head(obj)[2]
    ELSE ObjGet(Tail(obj), key)

ObjHas(obj, key) == \E i \in 1..Len(obj) : obj[i][1] = key

\* obj[key] = value: an own property keeps its place, a new one goes last
ObjSet(obj, key, value) ==
    IF ObjHas(obj, key)
    THEN [i \in 1..Len(obj) |-> IF obj[i][1] = key THEN <<key, value>> ELSE obj[i]]
    ELSE Append(obj, <<key, value>>)

\* delete obj[key]
ObjDelete(obj, key) == LET keep(p) == p[1] # key IN SelectSeq(obj, keep)

RECURSIVE OutHeaders(_)
\* ClientRequest's constructor calls setHeader(key, value) for every key of
\* options.headers, and setHeader files the header under key.toLowerCase():
\* the header collection that goes out, as a function from lower-case names
OutHeaders(headers) ==
    IF headers = <<>> THEN <<>>
    ELSE LET n == Len(headers)
             before == OutHeaders(Take(headers, n - 1))
             name == Lower(headers[n][1])
         IN [k \in DOMAIN before \cup {name} |->
                IF k = name THEN headers[n][2] ELSE before[k]]

\* IncomingMessage.headers as a function from its (lower-case) names
InHeaders(headers) == OutHeaders(headers)

-----------------------------------------------------------------------------
(* proxy.js *)

\* the mutant that forgets to strip the destination-indicator header
createRequestOptionsKeepIndicator(parsedUrl, protocol, req) ==
    [hostname |-> parsedUrl.hostname,
     port |-> OrElse(parsedUrl.port, IF protocol = "https" THEN "443" ELSE "80"),
     path |-> urlResolve(parsedUrl.path, req.url),
     method |-> req.method,
     headers |-> ObjSet(req.headers, "Host", Lexeme(parsedUrl.hostname))]

\* the mutant that forgets to override Host
createRequestOptionsInboundHost(parsedUrl, protocol, req) ==
    [hostname |-> parsedUrl.hostname,
     port |-> OrElse(parsedUrl.port, IF protocol = "https" THEN "443" ELSE "80"),
     path |-> urlResolve(parsedUrl.path, req.url),
     method |-> req.method,
     headers |-> ObjDelete(req.headers, "x-destination-url")]

\* the mutant that concatenates the destination path and req.url
createRequestOptionsConcat(parsedUrl, protocol, req) ==
    [hostname |-> parsedUrl.hostname,
     port |-> OrElse(parsedUrl.port, IF protocol = "https" THEN "443" ELSE "80"),
     path |-> parsedUrl.path \o req.url,
     method |-> req.method,
     headers |-> ObjDelete(ObjSet(req.headers, "Host", Lexeme(parsedUrl.hostname)),
                           "x-destination-url")]

\* the mutant that takes 443 whenever the destination names no port
createRequestOptionsPort443(parsedUrl, protocol, req) ==
    [hostname |-> parsedUrl.hostname,
     port |-> OrElse(parsedUrl.port, "443"),
     path |-> urlResolve(parsedUrl.path, req.url),
     method |-> req.method,
     headers |-> ObjDelete(ObjSet(req.headers, "Host", Lexeme(parsedUrl.hostname)),
                           "x-destination-url")]

\* createRequestOptions(parsedUrl, protocol, req); protocol is "https" for the
\* https module and "http" for the http module; the default ports 443 and 80
\* are written as the strings an explicit port is
createRequestOptions(parsedUrl, protocol, req) ==
    [hostname |-> parsedUrl.hostname,
     port |-> OrElse(parsedUrl.port, IF protocol = "https" THEN "443" ELSE "80"),
     path |-> urlResolve(parsedUrl.path, req.url),
     method |-> req.method,
     headers |-> ObjDelete(ObjSet(req.headers, "Host", Lexeme(parsedUrl.hostname)),
                           "x-destination-url")]

\* forwardRequest: const protocol = parsedUrl.protocol === 'https:' ? https : http
selectProtocol(parsedUrl) == IF parsedUrl.protocol = "https:" THEN "https" ELSE "http"

\* what forwardRequest hands to protocol.request for (clientReq, destinationUrl):
\* the module it calls, the parsed destination and the options
outboundRequest(clientReq, destinationUrl) ==
    LET parsedUrl == urlParse(destinationUrl, FALSE)
        protocol == selectProtocol(parsedUrl)
    IN [protocol |-> protocol,
        parsedUrl |-> parsedUrl,
        options |-> createRequestOptions(parsedUrl, protocol, clientReq)]

-----------------------------------------------------------------------------
(* utils.js *)

CONTENT_TYPE_JSON == "application/json"

\* JSON.stringify({error: {code, message}}), for a code and a message free of
\* the characters JSON escapes
createErrorResponse(code, message) ==
    "{\"error\":{\"code\":\"" \o code \o "\",\"message\":\"" \o message \o "\"}}"

\* ${v} in a template literal
Interp(v) == IF v = null THEN "null" ELSE IF v = undefined THEN "undefined" ELSE v

buildFullUrl(parsedUrl, path) ==
    Interp(parsedUrl.protocol) \o "//" \o Interp(parsedUrl.hostname) \o Text(path)

-----------------------------------------------------------------------------
(* http.ServerResponse, as far as the relay drives it *)

NewResponse ==
    [writeHeadCalls |-> 0, headersSent |-> FALSE, statusCode |-> 200,
     headers |-> <<>>, body |-> <<>>, finished |-> FALSE, threw |-> FALSE]

\* res.writeHead(statusCode, headers): throws ERR_HTTP_HEADERS_SENT once the
\* header has been written
writeHead(res, statusCode, headers) ==
    IF res.headersSent
    THEN [res EXCEPT !.writeHeadCalls = @ + 1, !.threw = TRUE]
    ELSE [res EXCEPT !.writeHeadCalls = @ + 1, !.headersSent = TRUE,
                     !.statusCode = statusCode, !.headers = headers]

\* res.write(chunk)
write(res, chunk) == [res EXCEPT !.body = Append(@, chunk)]

\* res.end()
end(res) == [res EXCEPT !.finished = TRUE]

\* res.writeHead(statusCode, headers); res.end(data): a throw of writeHead
\* leaves end uncalled
writeHeadAndEnd(res, statusCode, headers, data) ==
    LET res1 == writeHead(res, statusCode, headers)
    IN IF res1.threw THEN res1 ELSE end(write(res1, data))

-----------------------------------------------------------------------------
(* services/callback.js and services/tunnel: the configuration *)

\* CALLBACK_URL values: not configured, https://your-api.example.com/webhook,
\* and http://%E0@example.com/hook, which url.parse rejects
CallbackUrls ==
    {<<>>,
     <<"https", ":", "/", "/", "your-api.example.com", "/", "webhook">>,
     <<"http", ":", "/", "/", "%E0", "@", "example.com", "/", "hook">>}

\* CALLBACK_AUTH_HEADER values: not configured, a token, and a value with a
\* line feed, which http.request rejects as a header value
CallbackAuthHeaders == {"", "Bearer your-auth-token", "Bearer\nyour-auth-token"}

\* checkInvalidHeaderChar, on the values the model uses
InvalidHeaderValues == {"Bearer\nyour-auth-token"}

\* CALLBACK_INTERVAL as configured: <<>> when it is not configured, else
\* <<milliseconds>>
ConfiguredIntervals == {<<>>, <<0>>, <<5000>>}

\* the interval the configuration takes when the file and the environment
\* name none
DEFAULT_CALLBACK_INTERVAL == 10000

\* the configuration's CALLBACK_INTERVAL, in milliseconds
CallbackInterval(configured) ==
    IF configured = <<>> THEN DEFAULT_CALLBACK_INTERVAL ELSE configured[1]

\* a callback configuration: an authorization header matters only to a
\* request that is built
CallbackConfigs ==
    {c \in [CALLBACK_URL : CallbackUrls,
            CALLBACK_AUTH_HEADER : CallbackAuthHeaders,
            configured : ConfiguredIntervals] :
        (c.CALLBACK_URL = <<>> \/ urlParseThrows(c.CALLBACK_URL, FALSE))
            => c.CALLBACK_AUTH_HEADER = ""}

\* the configuration object startServer hands to startTunnel
TunnelConfig(ngrok, cloudflare, c) ==
    [NGROK_ENABLED |-> ngrok,
     CLOUDFLARE_ENABLED |-> cloudflare,
     CALLBACK_URL |-> c.CALLBACK_URL,
     CALLBACK_AUTH_HEADER |-> c.CALLBACK_AUTH_HEADER,
     CALLBACK_INTERVAL |-> CallbackInterval(c.configured),
     CONTENT_TYPE_JSON |-> CONTENT_TYPE_JSON]

\* what execSync('ngrok --version') and execSync('cloudflared --version') find
Installations == [ngrok : BOOLEAN, cloudflared : BOOLEAN]

\* startServer of a configuration, before the listener is listening
IdleTunnel(config, configured, installed) ==
    [config |-> config,
     configured |-> configured,   \* CALLBACK_INTERVAL as configured
     installed |-> installed,
     server |-> "created",        \* the listener: created, listening, failed
     started |-> "pending",       \* the promise of startServer
     startedTunnel |-> null,      \* tunnel of the value startServer resolved with
     pc |-> "idle",               \* startTunnel: idle, ngrok, cloudflare, done
     provider |-> "none",         \* the provider started last
     step |-> "none",             \* the provider's start operation: waiting,
                                  \* retrying, sending, returned, threw
     result |-> [ngrok |-> "none", cloudflare |-> "none", none |-> "none"],
                                  \* the promises of the providers' start operations
     error |-> [ngrok |-> "", cloudflare |-> ""],
                                  \* why a start operation threw
     url |-> null,                \* the URL the start operation goes on with
     established |-> FALSE,       \* url was printed by the agent
     attempt |-> "none",          \* the promise awaiting the agent: pending,
                                  \* resolved, rejected
     process |-> "none",          \* the agent: running, exited, killed, failed
     exitCode |-> 0,
     closePending |-> FALSE,      \* 'exit' was emitted and 'close' not yet
     tunnelUrl |-> null,          \* let tunnelUrl of the attempt
     firstSeen |-> null,          \* the first URL the agent printed
     timeout |-> -1,              \* units left of the 30-second timer, -1: not armed
     fired |-> [ngrok |-> 0, cloudflare |-> 0],
                                  \* the 30-second timers that fired
     killed |-> 0,                \* the agents the timers killed
     age |-> 0,                   \* units since the agent was spawned, capped
     retryCount |-> 0,
     spawned |-> 0,               \* the agents createTunnel spawned
     alive |-> 0,                 \* the agents whose processes are running
     wait |-> -1,                 \* units left of the 5-second wait, -1: none
     waited |-> 0,                \* units since the last attempt was rejected
     interval |-> FALSE,          \* the interval of setupPeriodicCallback is set
     intervalLeft |-> -1,         \* units until the interval fires
     elapsed |-> 0,               \* units since the interval was set or fired
     ticks |-> 0,                 \* the times the interval fired
     lastCallback |-> "none",     \* how the promise of the initial sendCallback settled
     lastStatus |-> -1,           \* the status its response had, 0: the request failed
     inflight |-> 0,              \* periodic requests that have not ended
     failed |-> FALSE,            \* the promise of a periodic request was rejected
     stopped |-> FALSE,           \* stopServer was called
     stopTicks |-> 0,             \* ticks when stopServer was called
     stopThrew |-> FALSE,         \* process.kill threw while the tunnel was stopped
     stopResult |-> "none"]       \* the promise of stopServer

\* no tunnel is enabled
NoTunnel ==
    IdleTunnel(TunnelConfig(FALSE, FALSE,
                            [CALLBACK_URL |-> <<>>, CALLBACK_AUTH_HEADER |-> "",
                             configured |-> <<>>]),
               <<>>, [ngrok |-> FALSE, cloudflared |-> FALSE])

-----------------------------------------------------------------------------
(* The forwarding cycles *)

Reqs == 1..NumReqs

Methods == {"GET", "POST"}

ErrorMessages == {"connect ECONNREFUSED", "socket hang up"}

StatusCodes == {200, 404}

UpstreamHeaders == {<<<<"content-type", <<"text/html">>>>>>}

\* x-destination-url values of the cycles: http://example.com/api,
\* https://example.com, and http://%E0@example.com, which url.parse rejects
CoreDestinations ==
    {<<"http", ":", "/", "/", "example.com", "/", "api">>,
     <<"https", ":", "/", "/", "example.com">>,
     <<"http", ":", "/", "/", "%E0", "@", "example.com">>}

\* the header objects of the cycles: the indicator absent, empty or a destination
CoreHeaders ==
    {<<<<"host", <<"relay.local">>>>>>,
     <<<<"host", <<"relay.local">>>>, <<"x-destination-url", <<>>>>>>}
    \cup {<<<<"host", <<"relay.local">>>>, <<"x-destination-url", d>>>> : d \in CoreDestinations}

\* the inbound requests of the cycles
CoreRequests ==
    [method : Methods, url : {<<"/", "v1", "/", "users", "?", "x=1">>}, headers : CoreHeaders]

\* the body of an IncomingMessage: the chunks read so far, 'end' emitted, the
\* connection closed by the caller
NewIncoming == [chunks |-> 0, ended |-> FALSE, closed |-> FALSE]

\* the body of a ClientRequest: the chunks written, end() called
NewOutgoing == [body |-> <<>>, ended |-> FALSE]

NoExchange == [state |-> "none", statusCode |-> 0, headers |-> <<>>, chunks |-> 0, error |-> ""]

TypeOK ==
    /\ \A r \in Reqs :
        /\ inbound[r] \in {<<>>} \cup {<<q>> : q \in CoreRequests}
        /\ upstream[r].state \in {"none", "open", "response", "ended", "failed"}
        /\ upstream[r].chunks \in 0..MaxChunks
        /\ clientRes[r].writeHeadCalls \in 0..2
    /\ crashed \in BOOLEAN

CoreInit ==
    /\ inbound = [r \in Reqs |-> <<>>]
    /\ calls = [r \in Reqs |-> <<>>]
    /\ outbound = [r \in Reqs |-> <<>>]
    /\ upstream = [r \in Reqs |-> NoExchange]
    /\ clientRes = [r \in Reqs |-> NewResponse]
    /\ log = [r \in Reqs |-> <<>>]
    /\ crashed = FALSE
    /\ inStream = [r \in Reqs |-> NewIncoming]
    /\ outStream = [r \in Reqs |-> NewOutgoing]

-----------------------------------------------------------------------------
(* error-handlers.js, proxy.js, request-handlers.js: the handlers.  res is  *)
(* the index of the cycle whose ServerResponse the handler writes.          *)

LogLine(res, line) == log' = [log EXCEPT ![res] = Append(@, line)]

\* the handler of the first version of index.js: a text/plain 400
handleMissingDestinationPlain(req, res) ==
    /\ LogLine(res, "400 | (Missing X-Destination-URL header) | " \o req.method \o " | /")
    /\ clientRes' = [clientRes EXCEPT ![res] =
          writeHeadAndEnd(@, 400, <<<<"Content-Type", <<"text/plain">>>>>>,
                          "X-Destination-URL header is required.")]
    /\ crashed' = clientRes'[res].threw
    /\ UNCHANGED <<outbound, upstream>>

handleMissingDestination(req, res) ==
    /\ LogLine(res, "400 | (Missing X-Destination-URL header) | " \o req.method \o " | /")
    /\ clientRes' = [clientRes EXCEPT ![res] =
          writeHeadAndEnd(@, 400, <<<<"Content-Type", <<CONTENT_TYPE_JSON>>>>>>,
                          createErrorResponse("001", "X-Destination-URL header is required."))]
    /\ crashed' = clientRes'[res].threw
    /\ UNCHANGED <<outbound, upstream>>

handleProxyResponse(proxyRes, res, parsedUrl, options, clientReq) ==
    /\ LogLine(res, ToString(proxyRes.statusCode) \o " | OK | " \o clientReq.method
                    \o " | " \o buildFullUrl(parsedUrl, options.path))
    /\ clientRes' = [clientRes EXCEPT ![res] =
          writeHead(@, proxyRes.statusCode, proxyRes.headers)]
    /\ crashed' = clientRes'[res].threw
    /\ UNCHANGED outbound

\* the handler of the first version of index.js: a text/plain 500
handleProxyErrorPlain(err, res, parsedUrl, options, clientReq) ==
    /\ LogLine(res, "500 (Error: " \o err \o ") | " \o clientReq.method
                    \o " | " \o buildFullUrl(parsedUrl, options.path))
    /\ clientRes' = [clientRes EXCEPT ![res] =
          writeHeadAndEnd(@, 500, <<<<"Content-Type", <<"text/plain">>>>>>,
                          "Proxy request failed: " \o err)]
    /\ crashed' = clientRes'[res].threw
    /\ UNCHANGED outbound

\* the mutant that answers a failure by trying the destination again
handleProxyErrorRetry(err, res, parsedUrl, options, clientReq) ==
    /\ LogLine(res, "500 (Error: " \o err \o ") | " \o clientReq.method
                    \o " | " \o buildFullUrl(parsedUrl, options.path))
    /\ outbound' = [outbound EXCEPT ![res] = Append(@, @[1])]
    /\ UNCHANGED <<clientRes, crashed>>

handleProxyError(err, res, parsedUrl, options, clientReq) ==
    /\ LogLine(res, "500 (Error: " \o err \o ") | " \o clientReq.method
                    \o " | " \o buildFullUrl(parsedUrl, options.path))
    /\ clientRes' = [clientRes EXCEPT ![res] =
          writeHeadAndEnd(@, 500, <<<<"Content-Type", <<CONTENT_TYPE_JSON>>>>>>,
                          createErrorResponse("002", "Proxy request failed: " \o err))]
    /\ crashed' = clientRes'[res].threw
    /\ UNCHANGED outbound

\* protocol.request(options, callback), proxyReq.on('error', ...), clientReq.pipe(proxyReq)
\* the mutant that starts the caller's response before the upstream answers
forwardRequestEagerHead(clientReq, res, destinationUrl) ==
    /\ outbound' = [outbound EXCEPT ![res] =
          Append(@, outboundRequest(clientReq, destinationUrl))]
    /\ upstream' = [upstream EXCEPT ![res].state = "open"]
    /\ clientRes' = [clientRes EXCEPT ![res] = writeHead(@, 200, <<>>)]
    /\ UNCHANGED <<log, crashed>>

\* url.parse(destinationUrl) is not guarded: a throw leaves forwardRequest,
\* handleRequest and the 'request' listener
forwardRequest(clientReq, res, destinationUrl) ==
    IF urlParseThrows(destinationUrl, FALSE)
    THEN /\ crashed' = TRUE
         /\ UNCHANGED <<outbound, upstream, clientRes, log>>
    ELSE /\ outbound' = [outbound EXCEPT ![res] =
               Append(@, outboundRequest(clientReq, destinationUrl))]
         /\ upstream' = [upstream EXCEPT ![res].state = "open"]
         /\ UNCHANGED <<clientRes, log, crashed>>

\* the mutant that tests destinationUrl === undefined
handleRequestUndefinedOnly(req, res) ==
    LET destinationUrl == ObjGet(req.headers, "x-destination-url")
    IN IF destinationUrl = Undefined
       THEN /\ calls' = [calls EXCEPT ![res] = Append(@, <<"handleMissingDestination", res, res>>)]
            /\ handleMissingDestination(req, res)
       ELSE /\ calls' = [calls EXCEPT ![res] =
                  Append(@, <<"forwardRequest", res, res, destinationUrl>>)]
            /\ forwardRequest(req, res, destinationUrl)

handleRequest(req, res) ==
    LET destinationUrl == ObjGet(req.headers, "x-destination-url")
    IN IF Not(destinationUrl)
       THEN /\ calls' = [calls EXCEPT ![res] = Append(@, <<"handleMissingDestination", res, res>>)]
            /\ handleMissingDestination(req, res)
       ELSE /\ calls' = [calls EXCEPT ![res] =
                  Append(@, <<"forwardRequest", res, res, destinationUrl>>)]
            /\ forwardRequest(req, res, destinationUrl)

-----------------------------------------------------------------------------
(* The events of a cycle *)

Arrived(r) == inbound[r] # <<>>

\* the HTTP listener calls handleRequest for the next inbound request
Request(r) ==
    \E req \in CoreRequests :
        /\ ~crashed
        /\ inbound[r] = <<>>
        /\ IF r = 1 THEN TRUE ELSE inbound[r - 1] # <<>>
        /\ inbound' = [inbound EXCEPT ![r] = <<req>>]
        /\ handleRequest(req, r)
        /\ UNCHANGED <<fnVars, streamVars, tunnelVars>>

\* the callback of protocol.request: the upstream's status line and headers are in
ProxyResponse(r) ==
    \E statusCode \in StatusCodes, headers \in UpstreamHeaders :
        /\ ~crashed
        /\ upstream[r].state = "open"
        /\ upstream' = [upstream EXCEPT ![r].state = "response",
                                        ![r].statusCode = statusCode,
                                        ![r].headers = headers]
        /\ handleProxyResponse([statusCode |-> statusCode, headers |-> headers], r,
                               outbound[r][1].parsedUrl, outbound[r][1].options,
                               inbound[r][1])
        /\ UNCHANGED <<inbound, calls, fnVars, streamVars, tunnelVars>>

\* the mutant whose pipe hands a chunk on ahead of the ones before it
PipeDataPrepend(r) ==
    /\ ~crashed
    /\ upstream[r].state = "response"
    /\ upstream[r].chunks < MaxChunks
    /\ upstream' = [upstream EXCEPT ![r].chunks = @ + 1]
    /\ clientRes' = [clientRes EXCEPT ![r].body =
          <<"chunk" \o ToString(upstream[r].chunks + 1)>> \o @]
    /\ UNCHANGED <<inbound, calls, outbound, log, crashed, fnVars, streamVars, tunnelVars>>

\* proxyRes.pipe(clientRes, {end: true}): a chunk of the upstream body
PipeData(r) ==
    /\ ~crashed
    /\ upstream[r].state = "response"
    /\ upstream[r].chunks < MaxChunks
    /\ upstream' = [upstream EXCEPT ![r].chunks = @ + 1]
    /\ clientRes' = [clientRes EXCEPT ![r] =
          write(@, "chunk" \o ToString(upstream[r].chunks + 1))]
    /\ UNCHANGED <<inbound, calls, outbound, log, crashed, fnVars, streamVars, tunnelVars>>

\* proxyRes.pipe(clientRes, {end: true}): the upstream body ends
PipeEnd(r) ==
    /\ ~crashed
    /\ upstream[r].state = "response"
    /\ upstream' = [upstream EXCEPT ![r].state = "ended"]
    /\ clientRes' = [clientRes EXCEPT ![r] = end(@)]
    /\ UNCHANGED <<inbound, calls, outbound, log, crashed, fnVars, streamVars, tunnelVars>>

\* proxyReq emits 'error': while connecting, or on a socket or parse error
\* after the response has begun and before it is complete
ProxyError(r) ==
    \E err \in ErrorMessages :
        /\ ~crashed
        /\ upstream[r].state \in {"open", "response"}
        /\ upstream' = [upstream EXCEPT ![r].state = "failed", ![r].error = err]
        /\ handleProxyError(err, r, outbound[r][1].parsedUrl, outbound[r][1].options,
                            inbound[r][1])
        /\ UNCHANGED <<inbound, calls, fnVars, streamVars, tunnelVars>>

Init ==
    /\ CoreInit
    /\ fnIn = <<>>
    /\ fnOut = <<>>
    /\ tunnel = NoTunnel
    /\ callbacks = <<>>

Next ==
    \E r \in Reqs :
        \/ Request(r)
        \/ ProxyResponse(r)
        \/ PipeData(r)
        \/ PipeEnd(r)
        \/ ProxyError(r)

Spec == Init /\ [][Next]_vars

-----------------------------------------------------------------------------
(* The cycles with the caller's side of the exchange: the inbound body and  *)
(* the caller's connection                                                  *)

Streams == 1..NumStreams

\* clientReq.pipe(proxyReq, {end: true}) is in place: the pipe is set up by
\* forwardRequest and taken down when proxyReq emits 'error'
Piped(r) == outbound[r] # <<>> /\ upstream[r].state \in {"open", "response", "ended"}

\* the mutant that reads the inbound body without writing it out
ClientDataDropped(r) ==
    /\ ~crashed
    /\ Piped(r)
    /\ ~inStream[r].ended /\ ~inStream[r].closed
    /\ inStream[r].chunks < MaxBody
    /\ inStream' = [inStream EXCEPT ![r].chunks = @ + 1]
    /\ UNCHANGED <<inbound, calls, outbound, upstream, clientRes, log, crashed, outStream,
                   fnVars, tunnelVars>>

\* clientReq emits 'data': the pipe writes the chunk to proxyReq
ClientData(r) ==
    /\ ~crashed
    /\ Piped(r)
    /\ ~inStream[r].ended /\ ~inStream[r].closed
    /\ inStream[r].chunks < MaxBody
    /\ inStream' = [inStream EXCEPT ![r].chunks = @ + 1]
    /\ outStream' = [outStream EXCEPT ![r].body =
          Append(@, "body" \o ToString(inStream[r].chunks + 1))]
    /\ UNCHANGED <<inbound, calls, outbound, upstream, clientRes, log, crashed, fnVars, tunnelVars>>

\* clientReq emits 'end': the pipe, set up with end: true, calls proxyReq.end()
ClientEnd(r) ==
    /\ ~crashed
    /\ Piped(r)
    /\ ~inStream[r].ended /\ ~inStream[r].closed
    /\ inStream' = [inStream EXCEPT ![r].ended = TRUE]
    /\ outStream' = [outStream EXCEPT ![r].ended = TRUE]
    /\ UNCHANGED <<inbound, calls, outbound, upstream, clientRes, log, crashed, fnVars, tunnelVars>>

\* the caller closes its connection before its response is complete: no
\* listener of the relay is registered for it, and a pipe does not end or
\* destroy its destination when its source closes without 'end'
ClientClose(r) ==
    /\ ~crashed
    /\ Arrived(r)
    /\ ~inStream[r].closed
    /\ ~clientRes[r].finished
    /\ inStream' = [inStream EXCEPT ![r].closed = TRUE]
    /\ UNCHANGED <<inbound, calls, outbound, upstream, clientRes, log, crashed, outStream,
                   fnVars, tunnelVars>>

NextStream ==
    \E r \in Streams :
        \/ Request(r)
        \/ ProxyResponse(r)
        \/ PipeData(r)
        \/ PipeEnd(r)
        \/ ProxyError(r)
        \/ ClientData(r)
        \/ ClientEnd(r)
        \/ ClientClose(r)

SpecStream == Init /\ [][NextStream]_vars

\* the event loop runs a callback whose event is pending, and the upstream
\* and the caller are taken to go on for as long as they can
SpecLive == Init /\ [][NextStream]_vars /\ WF_vars(NextStream)

-----------------------------------------------------------------------------
(* services/callback.js: sendCallback and setupPeriodicCallback *)

\* JSON.stringify({tunnelUrl: tunnelUrl}), for a URL free of the characters
\* JSON escapes
CallbackData(tunnelUrl) == "{\"tunnelUrl\":\"" \o tunnelUrl \o "\"}"

\* the headers of the POST: Content-Type, Authorization if configured, Content-Length
CallbackHeaders(config, data) ==
    <<<<"Content-Type", <<config.CONTENT_TYPE_JSON>>>>>>
    \o (IF Truthy(config.CALLBACK_AUTH_HEADER)
        THEN <<<<"Authorization", <<config.CALLBACK_AUTH_HEADER>>>>>> ELSE <<>>)
    \o <<<<"Content-Length", <<ToString(Len(data))>>>>>>

\* the request sendCallback creates, writes data to and ends
CallbackRequest(parsedUrl, config, data) ==
    [isHttps |-> parsedUrl.protocol = "https:",
     hostname |-> parsedUrl.hostname,
     port |-> OrElse(parsedUrl.port, IF parsedUrl.protocol = "https:" THEN "443" ELSE "80"),
     path |-> parsedUrl.path,
     method |-> "POST",
     headers |-> CallbackHeaders(config, data),
     body |-> data]

\* request(options) throws on a header value with an invalid character
CallbackRequestThrows(config) == config.CALLBACK_AUTH_HEADER \in InvalidHeaderValues

\* a sendCallback that returns without sending anything
sendCallbackSkipped(tunnelUrl, config) == <<>>

\* sendCallback up to the promise it returns: <<>> when it returns without a
\* request (CALLBACK_URL not configured, or an exception caught and logged),
\* <<request>> when the POST has been written and ended and its outcome is awaited
sendCallback(tunnelUrl, config) ==
    IF config.CALLBACK_URL = <<>> THEN <<>>
    ELSE IF urlParseThrows(config.CALLBACK_URL, FALSE) THEN <<>>
    ELSE IF CallbackRequestThrows(config) THEN <<>>
    ELSE <<CallbackRequest(urlParse(config.CALLBACK_URL, FALSE), config,
                           CallbackData(tunnelUrl))>>

\* how the request of a callback ends: a response with a status, or an
\* 'error' of the request
CallbackResponses ==
    [kind : {"response"}, status : {199, 200, 299, 300}]
        \cup {[kind |-> "error", status |-> 0]}

\* the mutant that resolves on every response
callbackOutcomeAnyStatus(response) ==
    IF response.kind = "error" THEN "transport error" ELSE "resolved"

\* res.on('end') and req.on('error') of sendCallback: how its promise settles
callbackOutcome(response) ==
    IF response.kind = "error" THEN "transport error"
    ELSE IF response.status >= 200 /\ response.status < 300 THEN "resolved"
    ELSE "HTTP error: " \o ToString(response.status)

\* setupPeriodicCallback sets an interval unless callbacks are not enabled
setupPeriodicCallback(config) ==
    ~(config.CALLBACK_URL = <<>> \/ config.CALLBACK_INTERVAL <= 0)

-----------------------------------------------------------------------------
(* services/tunnel: startNgrokTunnel and startCloudflaredTunnel *)

MaxTicks == 2

\* the unit of time of the timers, in milliseconds
UnitMs == 5000

\* setTimeout(..., 30000) of startNgrokTunnel and createTunnelProcess
TunnelTimeoutMs == 30000

\* setTimeout(resolve, 5000) of createTunnel
RetryDelayMs == 5000

\* processRunTime < 10000 of onExit and onClose
EarlyExitMs == 10000

TimeoutUnits == TunnelTimeoutMs \div UnitMs

RetryUnits == RetryDelayMs \div UnitMs

EarlyUnits == EarlyExitMs \div UnitMs

\* createTunnel(config, retryCount = 0, maxRetries = 3)
maxRetries == 3

DummyTunnelUrl == "https://dummy-tunnel-url.trycloudflare.com"

\* URLs the agent of a provider prints once its tunnel is up: they match the
\* provider's pattern
ScrapedUrls(provider) ==
    IF provider = "ngrok"
    THEN {"https://abc-123.ngrok.io", "https://def-456.ngrok.io"}
    ELSE {"https://abc-123.trycloudflare.com", "https://def-456.trycloudflare.com"}

\* the state of the forwarding cycles but for the process being alive
cycleVars == <<inbound, calls, outbound, upstream, clientRes, log, inStream, outStream>>

\* resolve or reject of a promise: only the first call has an effect
Settle(result, state) == IF result \in {"none", "pending"} THEN state ELSE result

\* startTunnel returns value: startServer resolves with {server, tunnel: value}
startServerResolve(t, value) ==
    [t EXCEPT !.pc = "done",
              !.started = Settle(@, "resolved"),
              !.startedTunnel = IF t.started = "pending" THEN value ELSE @]

\* the mutant whose interval is the default whatever is configured
WithPeriodicCallbackDefault(t) ==
    IF setupPeriodicCallback(t.config)
    THEN [t EXCEPT !.interval = TRUE,
                   !.intervalLeft = DEFAULT_CALLBACK_INTERVAL \div UnitMs,
                   !.elapsed = 0]
    ELSE t

\* const stopCallback = setupPeriodicCallback(tunnelUrl, config)
WithPeriodicCallback(t) ==
    IF setupPeriodicCallback(t.config)
    THEN [t EXCEPT !.interval = TRUE,
                   !.intervalLeft = t.config.CALLBACK_INTERVAL \div UnitMs,
                   !.elapsed = 0]
    ELSE t

\* the mutant whose start operation throws what the initial sendCallback
\* rejected with
ReturnTunnelOrThrow(t) ==
    IF t.lastCallback \in {"none", "resolved"}
    THEN startServerResolve([WithPeriodicCallback(t) EXCEPT
                                 !.step = "returned",
                                 !.result[t.provider] = Settle(@, "resolved")],
                            t.url)
    ELSE startServerResolve([t EXCEPT !.step = "threw",
                                      !.result[t.provider] = Settle(@, "rejected")],
                            null)

\* after the awaited sendCallback: the periodic callback is set up and the
\* start operation returns {url: tunnelUrl, stop}
ReturnTunnel(t) ==
    IF t.result[t.provider] = "none"
    THEN startServerResolve([WithPeriodicCallback(t) EXCEPT
                                 !.step = "returned",
                                 !.result[t.provider] = "resolved"],
                            t.url)
    ELSE WithPeriodicCallback(t)

\* the start operation has a tunnel URL: it calls sendCallback and awaits it
\* before it sets up the periodic callback and returns
WithTunnelUrl(t, tunnelUrl, established) ==
    IF sendCallback(tunnelUrl, t.config) = <<>>
    THEN ReturnTunnel([t EXCEPT !.url = tunnelUrl, !.established = established,
                                !.lastCallback = "resolved"])
    ELSE [t EXCEPT !.url = tunnelUrl, !.established = established, !.step = "sending"]

\* spawn('ngrok', args), spawn('cloudflared', args) and the 30-second timer
SpawnAgent(t) ==
    [t EXCEPT !.step = "waiting", !.attempt = "pending", !.process = "running",
              !.exitCode = 0, !.closePending = FALSE, !.tunnelUrl = null,
              !.firstSeen = null, !.timeout = TimeoutUnits, !.age = 0,
              !.alive = @ + 1]

\* createTunnel(config, retryCount, maxRetries) up to its await
createTunnel(t, retryCount) ==
    [SpawnAgent(t) EXCEPT !.retryCount = retryCount, !.spawned = @ + 1, !.wait = -1]

\* startCloudflaredTunnel throws: startTunnel logs it and returns null
CloudflaredThrew(t, error) ==
    startServerResolve([t EXCEPT !.step = "threw",
                                 !.result.cloudflare = "rejected",
                                 !.error.cloudflare = error],
                       null)

\* startCloudflaredTunnel(config) up to its await
startCloudflaredTunnel(t) ==
    IF t.installed.cloudflared
    THEN createTunnel([t EXCEPT !.pc = "cloudflare", !.provider = "cloudflare",
                                !.url = null, !.established = FALSE], 0)
    ELSE CloudflaredThrew([t EXCEPT !.pc = "cloudflare", !.provider = "cloudflare"],
                          "Cloudflared is not installed")

\* startTunnel after its ngrok branch
afterNgrok(t) ==
    IF t.config.CLOUDFLARE_ENABLED
    THEN startCloudflaredTunnel(t)
    ELSE startServerResolve(t, null)

\* reject(error) of startNgrokTunnel: startTunnel logs it and goes on
RejectNgrok(t, error) ==
    IF t.result.ngrok = "none"
    THEN afterNgrok([t EXCEPT !.step = "threw", !.attempt = Settle(@, "rejected"),
                              !.result.ngrok = "rejected", !.error.ngrok = error])
    ELSE t

\* the mutant that spawns ngrok without checking for it
startNgrokTunnelUnchecked(t) ==
    SpawnAgent([t EXCEPT !.pc = "ngrok", !.provider = "ngrok"])

\* startNgrokTunnel(config) up to the promise it returns
startNgrokTunnel(t) ==
    IF t.installed.ngrok
    THEN SpawnAgent([t EXCEPT !.pc = "ngrok", !.provider = "ngrok"])
    ELSE RejectNgrok([t EXCEPT !.pc = "ngrok", !.provider = "ngrok"],
                     "Ngrok is not installed")

\* the mutant that starts with Cloudflare
startTunnelCloudflareFirst(t) == afterNgrok(t)

\* startTunnel(config) up to its first await that waits
startTunnel(t) ==
    IF t.config.NGROK_ENABLED THEN startNgrokTunnel(t) ELSE afterNgrok(t)

\* resolve({url, tunnel}) of a createTunnel attempt: startCloudflaredTunnel
\* goes on with the URL
ResolveAttempt(t, url, established) ==
    IF t.attempt = "pending"
    THEN WithTunnelUrl([t EXCEPT !.attempt = "resolved"], url, established)
    ELSE t

\* the request the start operation sends when the attempt resolves with url
AttemptCallbacks(t, url) ==
    IF t.attempt = "pending" THEN sendCallback(url, t.config) ELSE <<>>

\* the mutant that tries again whatever retryCount is
RejectAttemptAgain(t, quick) ==
    IF t.attempt # "pending" THEN t
    ELSE [t EXCEPT !.attempt = "rejected", !.step = "retrying", !.wait = RetryUnits,
                   !.waited = 0]

\* reject(error) of a createTunnel attempt, with a critical message: another
\* attempt after 5 seconds, or the error thrown to startCloudflaredTunnel,
\* which returns the dummy URL when the message holds 'Requesting new quick
\* Tunnel' and throws otherwise
RejectAttempt(t, quick) ==
    IF t.attempt # "pending" THEN t
    ELSE IF t.retryCount < maxRetries
    THEN [t EXCEPT !.attempt = "rejected", !.step = "retrying", !.wait = RetryUnits,
                   !.waited = 0]
    ELSE IF quick
    THEN startServerResolve([t EXCEPT !.attempt = "rejected", !.step = "returned",
                                      !.result.cloudflare = "resolved",
                                      !.url = DummyTunnelUrl],
                            DummyTunnelUrl)
    ELSE CloudflaredThrew([t EXCEPT !.attempt = "rejected"], "critical")

\* onExit and onClose of createTunnel
onExit(t, code) ==
    IF t.tunnelUrl = null /\ code # 0 /\ t.age < EarlyUnits
    THEN ResolveAttempt([t EXCEPT !.timeout = -1], DummyTunnelUrl, FALSE)
    ELSE t

\* the requests onExit and onClose lead to
onExitCallbacks(t, code) ==
    IF t.tunnelUrl = null /\ code # 0 /\ t.age < EarlyUnits
    THEN AttemptCallbacks(t, DummyTunnelUrl)
    ELSE <<>>

\* the mutant that rejects on every exit with a non-zero code
ngrokOnExitAlways(t, code) ==
    IF code # 0
    THEN RejectNgrok([t EXCEPT !.timeout = -1], "Ngrok exited")
    ELSE [t EXCEPT !.timeout = -1]

\* ngrokProcess.on('exit'): the timer is cleared, and a non-zero code before
\* a URL rejects
ngrokOnExit(t, code) ==
    IF code # 0 /\ t.tunnelUrl = null
    THEN RejectNgrok([t EXCEPT !.timeout = -1], "Ngrok exited")
    ELSE [t EXCEPT !.timeout = -1]

\* the mutant that leaves the timer running
onTunnelUrlDataKeepsTimer(t, u) ==
    ResolveAttempt([t EXCEPT !.tunnelUrl = u, !.firstSeen = u], u, TRUE)

\* tunnelProcess.stderr.on('data') with the first match of the URL pattern:
\* tunnelUrl is set, the timer is cleared and onTunnelUrl resolves the attempt
onTunnelUrlData(t, u) ==
    ResolveAttempt([t EXCEPT !.tunnelUrl = u, !.firstSeen = u, !.timeout = -1], u, TRUE)

\* server.listen's callback: the listener is listening and startTunnel is called
ServerListening ==
    /\ ~crashed
    /\ tunnel.server = "created"
    /\ tunnel' = startTunnel([tunnel EXCEPT !.server = "listening"])
    /\ UNCHANGED <<callbacks, coreVars, fnVars>>

\* server.on('error'): the listener could not listen
ServerError ==
    /\ ~crashed
    /\ tunnel.server = "created"
    /\ tunnel' = [tunnel EXCEPT !.server = "failed", !.started = "rejected"]
    /\ UNCHANGED <<callbacks, coreVars, fnVars>>

\* the agent prints a tunnel URL on stderr: the first match is the tunnel
\* URL, the timer is cleared, and a later match is logged only
TunnelUrlOutput ==
    \E u \in ScrapedUrls(tunnel.provider) :
        /\ ~crashed
        /\ tunnel.process = "running"
        /\ IF tunnel.tunnelUrl # null
           THEN UNCHANGED <<tunnel, callbacks>>
           ELSE IF tunnel.provider = "ngrok"
           THEN /\ tunnel' = WithTunnelUrl([tunnel EXCEPT !.tunnelUrl = u, !.firstSeen = u,
                                                          !.timeout = -1],
                                           u, TRUE)
                /\ callbacks' = callbacks \o sendCallback(u, tunnel.config)
           ELSE /\ tunnel' = onTunnelUrlData(tunnel, u)
                /\ callbacks' = callbacks \o AttemptCallbacks(tunnel, u)
        /\ UNCHANGED <<coreVars, fnVars>>

\* the agent exits with code: ngrok clears the timer and rejects on a
\* non-zero code before a URL; onExit of createTunnel resolves with the dummy
\* URL on a non-zero code before a URL within 10 seconds, and logs otherwise
TunnelExit ==
    \E code \in {0, 1} :
        /\ ~crashed
        /\ tunnel.process = "running"
        /\ IF tunnel.provider = "ngrok"
           THEN /\ tunnel' = ngrokOnExit([tunnel EXCEPT !.process = "exited",
                                                        !.exitCode = code, !.alive = @ - 1],
                                         code)
                /\ UNCHANGED callbacks
           ELSE /\ tunnel' = onExit([tunnel EXCEPT !.process = "exited", !.exitCode = code,
                                                   !.alive = @ - 1, !.closePending = TRUE],
                                    code)
                /\ callbacks' = callbacks \o onExitCallbacks(tunnel, code)
        /\ UNCHANGED <<coreVars, fnVars>>

\* the exited cloudflared emits 'close' once its streams are closed
TunnelClose ==
    /\ ~crashed
    /\ tunnel.closePending
    /\ tunnel' = onExit([tunnel EXCEPT !.closePending = FALSE], tunnel.exitCode)
    /\ callbacks' = callbacks \o onExitCallbacks(tunnel, tunnel.exitCode)
    /\ UNCHANGED <<coreVars, fnVars>>

\* the agent could not be spawned and its process emits 'error': the timer is
\* cleared; ngrok rejects; onError of createTunnel rejects on a critical
\* message and resolves with the dummy URL on any other
TunnelError ==
    \E critical \in BOOLEAN, quick \in BOOLEAN :
        /\ ~crashed
        /\ quick => critical
        /\ tunnel.process = "running"
        /\ tunnel.firstSeen = null
        /\ tunnel.attempt = "pending"
        /\ IF tunnel.provider = "ngrok"
           THEN /\ ~critical
                /\ tunnel' = RejectNgrok([tunnel EXCEPT !.process = "failed", !.alive = @ - 1,
                                                        !.timeout = -1],
                                         "Error spawning ngrok")
                /\ UNCHANGED callbacks
           ELSE IF critical
           THEN /\ tunnel' = RejectAttempt([tunnel EXCEPT !.process = "failed",
                                                          !.alive = @ - 1, !.timeout = -1],
                                           quick)
                /\ UNCHANGED callbacks
           ELSE /\ tunnel' = ResolveAttempt([tunnel EXCEPT !.process = "failed",
                                                           !.alive = @ - 1, !.timeout = -1],
                                            DummyTunnelUrl, FALSE)
                /\ callbacks' = callbacks \o AttemptCallbacks(tunnel, DummyTunnelUrl)
        /\ UNCHANGED <<coreVars, fnVars>>

\* the 30-second timer fires. ngrok: ngrokProcess.kill() and reject.
\* cloudflared: process.kill(-pid), which throws when the process group is
\* gone, then onError with a message that is not critical, which resolves
\* with the dummy URL
TunnelTimeout ==
    \E throws \in BOOLEAN :
        /\ tunnel.timeout = 0
        /\ ~crashed
        /\ throws => tunnel.process # "running"
        /\ IF tunnel.provider = "ngrok"
           THEN /\ ~throws
                /\ tunnel' = RejectNgrok([tunnel EXCEPT !.timeout = -1, !.fired.ngrok = @ + 1,
                                                        !.process = "killed", !.alive = @ - 1,
                                                        !.killed = @ + 1],
                                         "timed out")
                /\ UNCHANGED <<callbacks, crashed>>
           ELSE IF tunnel.process = "running"
           THEN /\ tunnel' = ResolveAttempt([tunnel EXCEPT !.timeout = -1,
                                                           !.fired.cloudflare = @ + 1,
                                                           !.process = "killed",
                                                           !.alive = @ - 1,
                                                           !.killed = @ + 1],
                                            DummyTunnelUrl, FALSE)
                /\ callbacks' = callbacks \o AttemptCallbacks(tunnel, DummyTunnelUrl)
                /\ UNCHANGED crashed
           ELSE IF throws
           THEN /\ tunnel' = [tunnel EXCEPT !.timeout = -1, !.fired.cloudflare = @ + 1]
                /\ crashed' = TRUE
                /\ UNCHANGED callbacks
           ELSE /\ tunnel' = ResolveAttempt([tunnel EXCEPT !.timeout = -1, !.fired.cloudflare = @ + 1],
                                            DummyTunnelUrl, FALSE)
                /\ callbacks' = callbacks \o AttemptCallbacks(tunnel, DummyTunnelUrl)
                /\ UNCHANGED crashed
        /\ UNCHANGED <<cycleVars, fnVars>>

\* the 5-second wait of createTunnel is over: createTunnel(config, retryCount + 1)
RetryWaitElapsed ==
    /\ ~crashed
    /\ tunnel.wait = 0
    /\ tunnel' = createTunnel(tunnel, tunnel.retryCount + 1)
    /\ UNCHANGED <<callbacks, coreVars, fnVars>>

\* the request of the awaited sendCallback ends, with any status or an
\* error: a rejection is caught and logged, and the start operation goes on
CallbackSettled ==
    \E response \in CallbackResponses :
        /\ ~crashed
        /\ tunnel.step = "sending"
        /\ tunnel' = ReturnTunnel([tunnel EXCEPT !.lastCallback = callbackOutcome(response),
                                                 !.lastStatus = response.status])
        /\ UNCHANGED <<callbacks, coreVars, fnVars>>

\* the interval of setupPeriodicCallback fires
PeriodicCallback ==
    /\ ~crashed
    /\ tunnel.interval
    /\ tunnel.intervalLeft = 0
    /\ tunnel.ticks < MaxTicks
    /\ tunnel' = [tunnel EXCEPT !.ticks = @ + 1,
                                !.elapsed = 0,
                                !.inflight =
                                    @ + Len(sendCallback(tunnel.url, tunnel.config)),
                                !.intervalLeft =
                                    IF tunnel.ticks + 1 < MaxTicks
                                    THEN tunnel.config.CALLBACK_INTERVAL \div UnitMs
                                    ELSE -1]
    /\ callbacks' = callbacks \o sendCallback(tunnel.url, tunnel.config)
    /\ UNCHANGED <<coreVars, fnVars>>

\* the request of a periodic sendCallback ends: a rejection is caught and
\* logged by the interval's callback
PeriodicCallbackSettled ==
    \E response \in CallbackResponses :
        /\ ~crashed
        /\ tunnel.inflight > 0
        /\ tunnel' = [tunnel EXCEPT !.inflight = @ - 1,
                                    !.failed =
                                        @ \/ callbackOutcome(response) # "resolved"]
        /\ UNCHANGED <<callbacks, coreVars, fnVars>>

\* the mutant that leaves the interval set
stopCallbackNoop(t) == t

\* the function setupPeriodicCallback returns: clearInterval(intervalId), or
\* nothing when no interval was set
stopCallback(t) == [t EXCEPT !.interval = FALSE, !.intervalLeft = -1]

\* the mutant whose stop lets process.kill's exception out, past stopServer
stopTunnelUncaught(t, throws) ==
    IF throws THEN [t EXCEPT !.stopThrew = TRUE, !.stopResult = "rejected"]
    ELSE stopCallback(t)

\* stop() of the tunnel object, inside the try of stopServer. ngrok:
\* stopCallback() and ngrokProcess.kill(). Cloudflare: stopCallback() and
\* stopTunnelProcess, which catches what process.kill(-pid) throws when the
\* process is gone; the object returned after a critical error only logs
stopTunnel(t, throws) ==
    IF t.provider = "cloudflare" /\ t.attempt = "rejected" THEN t
    ELSE IF t.process = "running"
    THEN [stopCallback(t) EXCEPT !.process = "killed", !.alive = @ - 1]
    ELSE [stopCallback(t) EXCEPT !.stopThrew = throws]

\* stopServer(server, tunnel), with what startServer resolved with: the
\* tunnel is stopped if there is one, and server.close is called
StopServer ==
    \E throws \in BOOLEAN :
        /\ ~crashed
        /\ tunnel.started = "resolved"
        /\ ~tunnel.stopped
        /\ throws => (tunnel.startedTunnel # null /\ tunnel.provider = "cloudflare"
                          /\ tunnel.attempt # "rejected" /\ tunnel.process # "running")
        /\ tunnel' =
              IF (IF tunnel.startedTunnel # null
                  THEN stopTunnel(tunnel, throws) ELSE tunnel).stopResult = "rejected"
              THEN [stopTunnel(tunnel, throws) EXCEPT !.stopped = TRUE,
                                                      !.stopTicks = tunnel.ticks]
              ELSE [(IF tunnel.startedTunnel # null
                     THEN stopTunnel(tunnel, throws) ELSE tunnel)
                        EXCEPT !.stopped = TRUE, !.stopTicks = tunnel.ticks,
                               !.server = "closing"]
        /\ UNCHANGED <<callbacks, coreVars, fnVars>>

\* the callback of server.close: the server has closed and stopServer resolves
ServerClosed ==
    /\ ~crashed
    /\ tunnel.server = "closing"
    /\ tunnel' = [tunnel EXCEPT !.server = "closed", !.stopResult = "resolved"]
    /\ UNCHANGED <<callbacks, coreVars, fnVars>>

\* a timer that is due
TimerDue == tunnel.timeout = 0 \/ tunnel.wait = 0 \/ tunnel.intervalLeft = 0

\* the age of the agent counts for as long as onExit or onClose may read it
AgeCounts ==
    /\ tunnel.process = "running" \/ tunnel.closePending
    /\ tunnel.tunnelUrl = null
    /\ tunnel.age < EarlyUnits

Countdown(n) == IF n > 0 THEN n - 1 ELSE n

\* a unit of time passes: no timer is late
Tick ==
    /\ ~crashed
    /\ ~TimerDue
    /\ tunnel.timeout > 0 \/ tunnel.wait > 0 \/ tunnel.intervalLeft > 0 \/ AgeCounts
    /\ tunnel' = [tunnel EXCEPT !.timeout = Countdown(@),
                                !.wait = Countdown(@),
                                !.waited = IF tunnel.wait > 0 THEN @ + 1 ELSE @,
                                !.intervalLeft = Countdown(@),
                                !.elapsed = IF tunnel.intervalLeft > 0 THEN @ + 1 ELSE @,
                                !.age = IF @ < EarlyUnits THEN @ + 1 ELSE @]
    /\ UNCHANGED <<callbacks, coreVars, fnVars>>

InitTunnel ==
    /\ CoreInit
    /\ fnIn = <<>>
    /\ fnOut = <<>>
    /\ tunnel \in {IdleTunnel(TunnelConfig(ngrok, cloudflare, c), c.configured, installed) :
                       ngrok \in BOOLEAN, cloudflare \in BOOLEAN,
                       c \in CallbackConfigs, installed \in Installations}
    /\ callbacks = <<>>

NextTunnel ==
    \/ ServerListening
    \/ ServerError
    \/ TunnelUrlOutput
    \/ TunnelExit
    \/ TunnelClose
    \/ TunnelError
    \/ TunnelTimeout
    \/ RetryWaitElapsed
    \/ CallbackSettled
    \/ PeriodicCallback
    \/ PeriodicCallbackSettled
    \/ StopServer
    \/ ServerClosed
    \/ Tick

SpecTunnel == InitTunnel /\ [][NextTunnel]_vars

\* the event loop runs a timer that is due and time goes on; the listener
\* comes to listen or fails; the callback's request ends. What the agents do
\* and when is theirs to choose
SpecTunnelLive ==
    /\ InitTunnel
    /\ [][NextTunnel]_vars
    /\ WF_vars(ServerListening \/ ServerError)
    /\ WF_vars(TunnelTimeout \/ RetryWaitElapsed \/ PeriodicCallback \/ Tick)
    /\ WF_vars(TunnelClose)
    /\ WF_vars(CallbackSettled \/ PeriodicCallbackSettled)
    /\ WF_vars(ServerClosed)

-----------------------------------------------------------------------------
(* The construction of the outbound request as a function of the inbound    *)
(* request: every input is a request whose destination header is present.  *)

SegNames == {"v1", "users", ".."}

DestSchemes == {"http", "https", "HTTPS", "ftp", ""}

DestPorts == {"", "8080"}

DestPaths == {<<>>, <<"/">>, <<"/", "api">>, <<"/", "api", "/">>}

DestQueries == {<<>>, <<"?", "k=1">>}

\* scheme://example.com:port/path?query; "" for a part that is left out
Destination(scheme, port, path, query) ==
    (IF scheme = "" THEN <<>> ELSE <<scheme, ":", "/", "/">>)
    \o <<"example.com">>
    \o (IF port = "" THEN <<>> ELSE <<":", port>>)
    \o path \o query

\* without a scheme a ":" would make the host read as one
DestinationParts ==
    {p \in DestSchemes \X DestPorts \X DestPaths \X DestQueries : p[1] # "" \/ p[2] = ""}

Destinations ==
    {Destination(p[1], p[2], p[3], p[4]) : p \in DestinationParts}
    \cup {<<"https", ":", "/", "/", "Example.COM", ":", "8443", "/", "api">>}

RECURSIVE PathOf(_)
PathOf(segs) == IF segs = <<>> THEN <<>> ELSE <<"/", Head(segs)>> \o PathOf(Tail(segs))

\* req.url in origin form: "/" seg "/" seg ..., a trailing "/" or not, a query or not
ReqUrls ==
    {(IF segs = <<>> \/ trailing THEN PathOf(segs) \o <<"/">> ELSE PathOf(segs)) \o query :
        segs \in UNION {[1..n -> SegNames] : n \in 0..MaxSegs},
        trailing \in BOOLEAN,
        query \in {<<>>, <<"?", "x=1">>}}
    \cup {<<"/", "ping">>}

OptionHeaders ==
    {h1 \o <<<<"x-destination-url", d>>>> \o h2 :
        h1 \in {<<>>, <<<<"host", <<"relay.local">>>>>>},
        d \in Destinations,
        h2 \in {<<>>, <<<<"accept", <<"*/*">>>>>>}}

OptionInputs == [method : Methods, url : ReqUrls, headers : OptionHeaders]

InitOptions ==
    /\ CoreInit
    /\ fnIn \in OptionInputs
    /\ fnOut = <<>>
    /\ tunnel = NoTunnel
    /\ callbacks = <<>>

\* forwardRequest up to its call of protocol.request
ApplyOutboundRequest ==
    /\ fnOut = <<>>
    /\ fnOut' = <<outboundRequest(fnIn, ObjGet(fnIn.headers, "x-destination-url"))>>
    /\ UNCHANGED <<coreVars, fnIn, tunnelVars>>

NextOptions == ApplyOutboundRequest

SpecOptions == InitOptions /\ [][NextOptions]_vars

-----------------------------------------------------------------------------
(* Properties of the dispatch, request-handlers.js *)

DestinationHeader(r) == ObjGet(inbound[r][1].headers, "x-destination-url")

MissingDestination(r) == Arrived(r) /\ DestinationHeader(r) \in {Undefined, <<>>}

JsonContentType == <<<<"Content-Type", <<"application/json">>>>>>

\* C1: a request whose x-destination-url header is absent or empty is answered
\* with exactly 400, Content-Type application/json and the code-001 body, and
\* no outbound request exists for it, in any state
C1_MissingDestinationGets400 ==
    \A r \in Reqs :
        MissingDestination(r) =>
            /\ clientRes[r].writeHeadCalls = 1
            /\ clientRes[r].headersSent
            /\ clientRes[r].statusCode = 400
            /\ clientRes[r].headers = JsonContentType
            /\ clientRes[r].body =
                 <<"{\"error\":{\"code\":\"001\",\"message\":\"X-Destination-URL header is required.\"}}">>
            /\ clientRes[r].finished
            /\ outbound[r] = <<>>
            /\ upstream[r].state = "none"

\* one request without the header and one with the empty header have been answered
C1_Witness ==
    \E r1, r2 \in Reqs :
        /\ Arrived(r1) /\ DestinationHeader(r1) = Undefined
        /\ Arrived(r2) /\ DestinationHeader(r2) = <<>>
        /\ clientRes[r1].finished /\ clientRes[r2].finished

\* C2: handleRequest calls exactly one handler: forwardRequest(req, res, value)
\* when the header is present and non-empty, handleMissingDestination(req, res)
\* otherwise, and never the other one
C2_DispatchExactlyOne ==
    \A r \in Reqs :
        IF ~Arrived(r) THEN calls[r] = <<>>
        ELSE IF MissingDestination(r)
        THEN calls[r] = <<<<"handleMissingDestination", r, r>>>> /\ outbound[r] = <<>>
        ELSE calls[r] = <<<<"forwardRequest", r, r, DestinationHeader(r)>>>>
             /\ Len(outbound[r]) <= 1

\* both handlers have been dispatched to, each for its own request
C2_Witness ==
    \E r1, r2 \in Reqs :
        /\ Arrived(r1) /\ calls[r1][1][1] = "forwardRequest"
        /\ Arrived(r2) /\ calls[r2][1][1] = "handleMissingDestination"

-----------------------------------------------------------------------------
(* Properties of the outbound request options, proxy.js *)

Built == Len(fnOut) = 1

Destination0 == ObjGet(fnIn.headers, "x-destination-url")

OutOptions == fnOut[1].options

\* C3: the header collection of the outbound request never contains the
\* x-destination-url header, whatever other headers the inbound request carries
C3_IndicatorNeverForwarded ==
    Built =>
        /\ \A i \in 1..Len(OutOptions.headers) :
              Lower(OutOptions.headers[i][1]) # "x-destination-url"
        /\ "x-destination-url" \notin DOMAIN OutHeaders(OutOptions.headers)

\* options were built for a request that carries the indicator among other headers
C3_Witness ==
    /\ Built
    /\ ObjHas(fnIn.headers, "x-destination-url")
    /\ ObjHas(fnIn.headers, "host")
    /\ ObjHas(fnIn.headers, "accept")
    /\ ObjHas(OutOptions.headers, "accept")

\* C4: the outbound request has the inbound method and the inbound headers
\* minus the indicator, except Host: it carries one Host value, the
\* destination's hostname
C4_MethodAndHeadersForwarded ==
    Built =>
        /\ OutOptions.method = fnIn.method
        /\ DOMAIN OutHeaders(OutOptions.headers) =
              (DOMAIN InHeaders(fnIn.headers) \ {"x-destination-url"}) \cup {"host"}
        /\ \A k \in DOMAIN OutHeaders(OutOptions.headers) \ {"host"} :
              OutHeaders(OutOptions.headers)[k] = InHeaders(fnIn.headers)[k]
        /\ OutHeaders(OutOptions.headers)["host"] = Lexeme(fnOut[1].parsedUrl.hostname)

\* a POST with a Host of its own and another header, sent on to example.com
C4_Witness ==
    /\ Built
    /\ fnIn.method = "POST"
    /\ ObjGet(fnIn.headers, "host") = <<"relay.local">>
    /\ ObjHas(fnIn.headers, "accept")
    /\ OutHeaders(OutOptions.headers)["host"] = <<"example.com">>

\* the destination names a base path: its pathname is neither empty nor "/"
HasBasePath == fnOut[1].parsedUrl.pathname \notin {<<>>, <<"/">>}

StripTrailingSlash(p) == IF p # <<>> /\ p[Len(p)] = "/" THEN Take(p, Len(p) - 1) ELSE p

\* C5, as claimed: with a base path in the destination, the outbound path is
\* the base path joined with the inbound path+query
C5_BasePathJoined ==
    (Built /\ Truthy(fnOut[1].parsedUrl.hostname) /\ HasBasePath) =>
        OutOptions.path = StripTrailingSlash(fnOut[1].parsedUrl.pathname) \o fnIn.url

\* the destination names no path (or the root)
NoDestinationPath ==
    /\ Truthy(fnOut[1].parsedUrl.hostname)
    /\ fnOut[1].parsedUrl.pathname = <<"/">>

HasDotSegment(u) == \E i \in 1..Len(u) : u[i] \in {".", ".."}

\* C6, as claimed: with no path in the destination, the outbound path is the
\* inbound path+query unchanged
C6_NoPathUnchanged ==
    (Built /\ NoDestinationPath) => OutOptions.path = fnIn.url

\* C6, amended: with no path in the destination, the outbound path is the
\* inbound path+query unchanged exactly when the inbound path has no "." or
\* ".." segment; such segments are resolved away
C6_NoPathPlainUnchanged ==
    (Built /\ NoDestinationPath) =>
        /\ ~HasDotSegment(OutOptions.path)
        /\ (OutOptions.path = fnIn.url) <=> ~HasDotSegment(fnIn.url)

\* https://example.com and /ping
C6_Witness ==
    /\ Built
    /\ Destination0 = <<"https", ":", "/", "/", "example.com">>
    /\ fnIn.url = <<"/", "ping">>
    /\ OutOptions.path = <<"/", "ping">>

\* C7: the https module is used exactly when the destination scheme is https;
\* the port is the destination's explicit port, else 443 for https, else 80
C7_TransportAndPort ==
    Built =>
        \A p \in DestinationParts :
            Destination0 = Destination(p[1], p[2], p[3], p[4]) =>
                /\ fnOut[1].protocol = IF Lower(p[1]) = "https" THEN "https" ELSE "http"
                /\ OutOptions.port = IF p[2] # "" THEN p[2]
                                     ELSE IF Lower(p[1]) = "https" THEN "443" ELSE "80"

\* an https destination without a port goes out over TLS to 443
C7_Witness ==
    /\ Built
    /\ Destination0 = <<"HTTPS", ":", "/", "/", "example.com", "/", "api">>
    /\ fnOut[1].protocol = "https"
    /\ OutOptions.port = "443"

-----------------------------------------------------------------------------
(* Properties of the exchange, proxy.js and error-handlers.js *)

Failed(r) == upstream[r].state = "failed"

\* the upstream's status line and headers had come in
ResponseReceived(r) == upstream[r].statusCode # 0

ProxyFailureResponse(r) ==
    /\ clientRes[r].headersSent
    /\ clientRes[r].statusCode = 500
    /\ clientRes[r].headers = JsonContentType
    /\ clientRes[r].body =
         <<"{\"error\":{\"code\":\"002\",\"message\":\"Proxy request failed: "
           \o upstream[r].error \o "\"}}">>
    /\ clientRes[r].finished

C9_ResponseStartedAtMostOnce ==
    \A r \in Reqs : clientRes[r].writeHeadCalls <= 1

\* C10: at most one outbound request is created per inbound request, and a
\* failed cycle still has only the one
C10_SingleOutboundAttempt ==
    \A r \in Reqs :
        /\ Len(outbound[r]) <= 1
        /\ Failed(r) => Len(outbound[r]) = 1

\* an outbound request has failed, before and after the response began
C10_Witness ==
    \E r1, r2 \in Reqs :
        /\ Failed(r1) /\ ~ResponseReceived(r1) /\ Len(outbound[r1]) = 1
        /\ Failed(r2) /\ ResponseReceived(r2) /\ Len(outbound[r2]) = 1

-----------------------------------------------------------------------------
(* Properties of the order of a cycle's events *)

\* the caller's response carries a status that only an upstream sends
Proxied(r) == clientRes[r].headersSent /\ clientRes[r].statusCode \in StatusCodes

\* C11: within a cycle, an outbound request exists only once handleRequest has
\* found a non-empty destination header and dispatched to forwardRequest, and
\* the caller's response carries a proxied status and header set only once the
\* upstream's status and headers have come in, which are the ones it carries
C11_CycleOrdered ==
    \A r \in Reqs :
        /\ outbound[r] # <<>> =>
              /\ Arrived(r) /\ ~MissingDestination(r)
              /\ calls[r] = <<<<"forwardRequest", r, r, DestinationHeader(r)>>>>
        /\ upstream[r].state # "none" => outbound[r] # <<>>
        /\ Proxied(r) =>
              /\ ResponseReceived(r)
              /\ clientRes[r].statusCode = upstream[r].statusCode
              /\ clientRes[r].headers = upstream[r].headers

\* a cycle has gone through all three: header checked, outbound request
\* created, upstream headers received and written to the caller
C11_Witness ==
    \E r \in Reqs :
        /\ calls[r] # <<>> /\ outbound[r] # <<>>
        /\ ResponseReceived(r) /\ Proxied(r)

-----------------------------------------------------------------------------
(* Properties of the log *)

\* <scheme>//<hostname><outbound path> of the outbound request of cycle r
AttemptedUrl(r) ==
    outbound[r][1].parsedUrl.protocol \o "//" \o outbound[r][1].options.hostname
    \o Text(outbound[r][1].options.path)

\* the log line the outcome of cycle r calls for
OutcomeLine(r) ==
    IF MissingDestination(r)
    THEN "400 | (Missing X-Destination-URL header) | " \o inbound[r][1].method \o " | /"
    ELSE IF Failed(r)
    THEN "500 (Error: " \o upstream[r].error \o ") | " \o inbound[r][1].method
         \o " | " \o AttemptedUrl(r)
    ELSE ToString(upstream[r].statusCode) \o " | OK | " \o inbound[r][1].method
         \o " | " \o AttemptedUrl(r)

\* the cycle has an outcome: a missing header, a proxied response or a failure
HasOutcome(r) ==
    Arrived(r) /\ (MissingDestination(r) \/ ResponseReceived(r) \/ Failed(r))

\* C12, as claimed: a cycle emits no log line before its outcome and exactly
\* one log line for it, of the form of that outcome
C12_OneLogLinePerCycle ==
    \A r \in Reqs :
        IF HasOutcome(r) THEN log[r] = <<OutcomeLine(r)>> ELSE log[r] = <<>>

-----------------------------------------------------------------------------
(* Properties of the failures of a cycle *)

\* the destination header of cycle r is present and url.parse rejects it
UnparsableDestination(r) ==
    /\ Arrived(r) /\ ~MissingDestination(r)
    /\ urlParseThrows(DestinationHeader(r), FALSE)

\* C13, as claimed: a cycle whose destination header does not parse ends like a
\* proxy failure, with a finished 500 application/json response, and the
\* failure stays inside the request handler
C13_ParseFailureGets500 ==
    \A r \in Reqs :
        UnparsableDestination(r) =>
            /\ ~crashed
            /\ clientRes[r].headersSent
            /\ clientRes[r].statusCode = 500
            /\ clientRes[r].headers = JsonContentType
            /\ clientRes[r].finished

\* C16, as claimed: whatever fails in a cycle, no exception leaves the request
\* handler or a callback of the cycle, so the process goes on serving the
\* other cycles
C16_FailuresContained ==
    /\ ~crashed
    /\ \A r \in Reqs : ~clientRes[r].threw

\* cycle r has lost its response to an exception that another cycle let out
Stranded(r) ==
    /\ Arrived(r) /\ ~clientRes[r].finished
    /\ crashed
    /\ ~clientRes[r].threw /\ ~UnparsableDestination(r)

\* C19, as claimed: the outbound request of a cycle is a function of its own
\* inbound request, a proxied response of its own upstream's response, and no
\* cycle loses its response because of what another cycle did
C19_CyclesIsolated ==
    \A r \in Reqs :
        /\ outbound[r] # <<>> =>
              outbound[r] = <<outboundRequest(inbound[r][1], DestinationHeader(r))>>
        /\ Proxied(r) =>
              /\ clientRes[r].statusCode = upstream[r].statusCode
              /\ clientRes[r].headers = upstream[r].headers
        /\ ~Stranded(r)

-----------------------------------------------------------------------------
(* Properties of the two body streams *)

\* the first n chunks of an upstream body, in order
ResponseChunks(n) == [i \in 1..n |-> "chunk" \o ToString(i)]

\* C17: on a proxied response the caller has the upstream's status code and
\* header set, its body is the upstream's chunks so far, each once and in
\* order, and its response is ended exactly when the upstream body has ended
C17_ResponsePassedThrough ==
    \A r \in Reqs :
        Proxied(r) =>
            /\ clientRes[r].statusCode = upstream[r].statusCode
            /\ clientRes[r].headers = upstream[r].headers
            /\ clientRes[r].body = ResponseChunks(upstream[r].chunks)
            /\ clientRes[r].finished <=> upstream[r].state = "ended"

\* a 404 with two chunks has been passed on and ended
C17_Witness ==
    \E r \in Reqs :
        /\ Proxied(r)
        /\ upstream[r].state = "ended" /\ upstream[r].statusCode = 404
        /\ clientRes[r].statusCode = 404
        /\ clientRes[r].body = <<"chunk1", "chunk2">>
        /\ clientRes[r].finished

\* the first n chunks of an inbound body, in order
RequestChunks(n) == [i \in 1..n |-> "body" \o ToString(i)]

\* C18: the body written to the outbound request is the inbound chunks read
\* so far, each once and in order, and the outbound body is ended exactly
\* when the inbound body has ended
C18_RequestBodyForwarded ==
    \A r \in Reqs :
        /\ outStream[r].body = RequestChunks(inStream[r].chunks)
        /\ outStream[r].ended <=> inStream[r].ended

\* an inbound body of two chunks has gone out whole and ended
C18_Witness ==
    \E r \in Reqs :
        /\ outbound[r] # <<>>
        /\ inStream[r].chunks = 2 /\ inStream[r].ended
        /\ outStream[r].body = <<"body1", "body2">> /\ outStream[r].ended

-----------------------------------------------------------------------------
(* Properties of the caller's side of a cycle *)

Disconnected(r) == inStream[r].closed

\* the outbound exchange of cycle r is still going on
OutboundOpen(r) == upstream[r].state \in {"open", "response"}

\* C14, as claimed: once the caller of a cycle has disconnected before its
\* response was complete, the outbound request of the cycle is not open any
\* more, and no 500 response is made up for the cycle
C14_DisconnectAbortsOutbound ==
    \A r \in Reqs :
        Disconnected(r) =>
            /\ ~OutboundOpen(r)
            /\ ~(clientRes[r].headersSent /\ clientRes[r].statusCode = 500)

\* C15, as claimed: a request that has arrived and whose caller stays
\* connected eventually has a complete response: status, headers and the end
\* of the body
C15_EveryRequestAnswered ==
    \A r \in Reqs :
        (Arrived(r) /\ ~Disconnected(r)) ~> (clientRes[r].finished \/ Disconnected(r))

\* the start operation has returned a tunnel that was established, and a
\* callback URL is configured
StartedWithCallback ==
    /\ tunnel.result[tunnel.provider] = "resolved"
    /\ tunnel.established
    /\ tunnel.config.CALLBACK_URL # <<>>

\* the requests sent before the start operation returned: the interval is set
\* up on return, so that these are all but one request per tick
InitialCallbacks == Len(callbacks) - tunnel.ticks

\* a POST that carries {"tunnelUrl": <the public URL>} has been sent first
InitialPostSent ==
    /\ InitialCallbacks = 1
    /\ callbacks[1].method = "POST"
    /\ callbacks[1].body = CallbackData(tunnel.firstSeen)

\* sendCallback gets as far as writing its request: url.parse accepts the
\* callback URL and request() accepts the headers
CallbackSendable ==
    /\ ~urlParseThrows(tunnel.config.CALLBACK_URL, FALSE)
    /\ ~CallbackRequestThrows(tunnel.config)

-----------------------------------------------------------------------------
(* The periodic callback *)

\* the interval the claim names, in milliseconds: CALLBACK_INTERVAL, and 10
\* seconds when it is not configured
ClaimedIntervalMs == IF tunnel.configured = <<>> THEN 10000 ELSE tunnel.configured[1]

\* the POST is repeated every ClaimedIntervalMs: the interval is set, it fires
\* when that time has passed since it was set or fired last and not before,
\* and every time it fired a POST with the tunnel URL was sent
RepeatedPeriodically ==
    /\ tunnel.interval
    /\ Len(callbacks) = 1 + tunnel.ticks
    /\ \A i \in 1..Len(callbacks) :
           callbacks[i].method = "POST" /\ callbacks[i].body = CallbackData(tunnel.firstSeen)
    /\ tunnel.ticks < MaxTicks =>
           /\ tunnel.elapsed * UnitMs <= ClaimedIntervalMs
           /\ (tunnel.intervalLeft = 0) <=> (tunnel.elapsed * UnitMs = ClaimedIntervalMs)

C21_WitnessDefault ==
    /\ StartedWithCallback
    /\ CallbackSendable
    /\ tunnel.configured = <<>>
    /\ tunnel.ticks = 1
    /\ Len(callbacks) = 2

-----------------------------------------------------------------------------
(* The 30-second timeout *)

\* C22, as claimed: when the 30-second timer of an agent has fired, the agent
\* was killed and the start attempt failed with a timed-out error: it is not
\* reported as a started tunnel
C22_TimeoutFailsAttempt ==
    /\ tunnel.killed = tunnel.fired.ngrok + tunnel.fired.cloudflare
    /\ tunnel.fired.ngrok > 0 =>
           tunnel.result.ngrok = "rejected" /\ tunnel.error.ngrok = "timed out"
    /\ tunnel.fired.cloudflare > 0 =>
           /\ tunnel.attempt = "rejected"
           /\ tunnel.result.cloudflare # "resolved"
           /\ tunnel.startedTunnel = null

\* C22, for ngrok alone: the timer that fired killed the agent and rejected
\* with the timed-out error
C22_NgrokTimeoutRejects ==
    tunnel.fired.ngrok > 0 =>
        /\ tunnel.result.ngrok = "rejected"
        /\ tunnel.error.ngrok = "timed out"
        /\ tunnel.killed >= 1

\* C22: the timer of ngrok has fired
C22_NgrokWitness == tunnel.fired.ngrok > 0 /\ tunnel.provider = "ngrok"

-----------------------------------------------------------------------------
(* startTunnel *)

\* startTunnel has called the start operation of provider p
Attempted(p) == tunnel.provider = p \/ tunnel.result[p] # "none"

\* startTunnel has returned
TunnelReturned == tunnel.pc = "done"

\* C23: startTunnel does not throw; ngrok is started first when NGROK_ENABLED;
\* Cloudflare is attempted only when CLOUDFLARE_ENABLED and ngrok was disabled
\* or failed; startTunnel returns the result of the first provider that
\* succeeded, and null when none is enabled or every enabled one failed; at
\* most one agent is running after it returns
C23_ProvidersInPriorityOrder ==
    /\ tunnel.server = "listening" => tunnel.started # "rejected"
    /\ Attempted("ngrok") => tunnel.config.NGROK_ENABLED
    /\ (tunnel.server = "listening" /\ tunnel.config.NGROK_ENABLED) => Attempted("ngrok")
    /\ Attempted("cloudflare") =>
           /\ tunnel.config.CLOUDFLARE_ENABLED
           /\ ~tunnel.config.NGROK_ENABLED \/ tunnel.result.ngrok = "rejected"
    /\ TunnelReturned =>
           /\ tunnel.alive <= 1
           /\ tunnel.startedTunnel =
                  IF tunnel.result.ngrok = "resolved" \/ tunnel.result.cloudflare = "resolved"
                  THEN tunnel.url ELSE null
           /\ tunnel.result.ngrok = "resolved" => ~Attempted("cloudflare")
           /\ (tunnel.config.CLOUDFLARE_ENABLED /\ tunnel.result.ngrok # "resolved")
                  => tunnel.result.cloudflare # "none"

\* C23: ngrok failed, Cloudflare was started in its place and its result
\* was returned, with the one agent of Cloudflare running
C23_Witness ==
    /\ TunnelReturned
    /\ tunnel.result.ngrok = "rejected"
    /\ tunnel.result.cloudflare = "resolved"
    /\ tunnel.established
    /\ tunnel.startedTunnel = tunnel.firstSeen
    /\ tunnel.alive = 1

-----------------------------------------------------------------------------
(* startServer *)

\* C24, as claimed: the tunnel is started only once the listener is
\* listening; from then on startServer is not rejected and the listener is
\* not stopped, whatever becomes of the tunnel; and startServer resolves with
\* the tunnel object when the tunnel started and with null when it is
\* disabled or failed
C24_ServerOutlivesTunnel ==
    /\ (Attempted("ngrok") \/ Attempted("cloudflare")) => tunnel.server = "listening"
    /\ tunnel.server = "listening" => (tunnel.started # "rejected" /\ ~crashed)
    /\ tunnel.started = "resolved" =>
           /\ ~tunnel.stopped => tunnel.server = "listening"
           /\ tunnel.startedTunnel =
                  IF tunnel.result.ngrok = "resolved" \/ tunnel.result.cloudflare = "resolved"
                  THEN tunnel.url ELSE null

-----------------------------------------------------------------------------
(* createTunnel *)

\* a call of createTunnel has been made
CreateTunnelCalled == tunnel.provider = "cloudflare" /\ tunnel.spawned > 0

\* C25: one call of createTunnel spawns at most maxRetries + 1 cloudflared
\* processes, one per attempt, with retryCount one more at every attempt; an
\* attempt but the first starts only once the one before it was rejected and
\* 5 seconds have passed; and when the last attempt is rejected the error is
\* thrown to the caller, so that the call is over
C25_RetriesBounded ==
    CreateTunnelCalled =>
        /\ tunnel.spawned <= maxRetries + 1
        /\ tunnel.spawned = tunnel.retryCount + 1
        /\ tunnel.step = "retrying" =>
               /\ tunnel.attempt = "rejected"
               /\ tunnel.retryCount < maxRetries
               /\ tunnel.waited * UnitMs <= 5000
        /\ (tunnel.retryCount > 0 /\ tunnel.step # "retrying") =>
               tunnel.waited * UnitMs = 5000
        /\ (tunnel.attempt = "rejected" /\ tunnel.step # "retrying") =>
               /\ tunnel.retryCount = maxRetries
               /\ tunnel.result.cloudflare # "none"
               /\ tunnel.pc = "done"

\* C25: the fourth attempt was rejected and createTunnel threw its error
C25_Witness ==
    /\ CreateTunnelCalled
    /\ tunnel.spawned = maxRetries + 1
    /\ tunnel.attempt = "rejected"
    /\ tunnel.result.cloudflare = "rejected"
    /\ tunnel.error.cloudflare = "critical"

-----------------------------------------------------------------------------
(* startNgrokTunnel *)

\* ngrok is the provider whose agent the state describes
NgrokLast == tunnel.provider = "ngrok"

\* C26: startNgrokTunnel resolves with the first ngrok.io URL its agent
\* printed on stderr; it rejects when the agent exits with a non-zero code
\* before a URL, when it cannot be spawned and when the 30-second timer
\* fires; once a URL was seen no exit of the agent rejects it or changes
\* its result
C26_NgrokResult ==
    /\ tunnel.result.ngrok = "resolved" =>
           /\ NgrokLast
           /\ tunnel.firstSeen \in ScrapedUrls("ngrok")
           /\ tunnel.url = tunnel.firstSeen
           /\ tunnel.startedTunnel = tunnel.firstSeen
    /\ (NgrokLast /\ tunnel.firstSeen # null) =>
           /\ tunnel.result.ngrok # "rejected"
           /\ tunnel.tunnelUrl = tunnel.firstSeen
           /\ tunnel.url = tunnel.firstSeen
    /\ (NgrokLast /\ tunnel.firstSeen = null) =>
           /\ (tunnel.process = "exited" /\ tunnel.exitCode # 0) =>
                  tunnel.result.ngrok = "rejected" /\ tunnel.error.ngrok = "Ngrok exited"
           /\ tunnel.process = "failed" =>
                  tunnel.result.ngrok = "rejected"
                      /\ tunnel.error.ngrok = "Error spawning ngrok"
           /\ tunnel.fired.ngrok > 0 =>
                  tunnel.result.ngrok = "rejected" /\ tunnel.error.ngrok = "timed out"

\* C26: startNgrokTunnel has resolved with the URL seen first, and its agent
\* has exited with a non-zero code since
C26_Witness ==
    /\ NgrokLast
    /\ tunnel.result.ngrok = "resolved"
    /\ tunnel.url = tunnel.firstSeen
    /\ tunnel.process = "exited"
    /\ tunnel.exitCode # 0

-----------------------------------------------------------------------------
(* The start attempts settle *)

\* C27, as claimed: whatever the agents do (print a URL, fail to spawn, exit
\* with a zero or a non-zero code before any URL, stay silent), every start
\* attempt is resolved or rejected in the end, so that startServer, once its
\* listener is listening, resolves in the end
C27_StartSettles == (tunnel.server = "listening") ~> (tunnel.started = "resolved")

-----------------------------------------------------------------------------
(* The first event of a createTunnel attempt *)

\* cloudflared is the provider whose agent the state describes
CloudflareLast == tunnel.provider = "cloudflare"

\* C28: the result of a createTunnel attempt is fixed by its first event: once
\* the agent has printed its tunnel URL, the attempt is resolved with that
\* URL, and no exit, close or timeout after it puts another URL in its
\* place, kills the agent or starts another attempt
C28_FirstEventFixesResult ==
    /\ CloudflareLast => Len(callbacks) - tunnel.ticks <= 1
    /\ (CloudflareLast /\ tunnel.firstSeen # null) =>
           /\ tunnel.attempt = "resolved"
           /\ tunnel.tunnelUrl = tunnel.firstSeen
           /\ tunnel.url = tunnel.firstSeen
           /\ tunnel.established
           /\ tunnel.result.cloudflare = "resolved" => tunnel.startedTunnel = tunnel.firstSeen
           /\ tunnel.timeout = -1
           /\ ~tunnel.stopped => tunnel.process \in {"running", "exited"}
           /\ tunnel.step \in {"sending", "returned"}
           /\ tunnel.wait = -1

\* C28: the agent printed its URL and then exited with a non-zero code
\* within 10 seconds of its start, and closed: the URL is the result
C28_Witness ==
    /\ CloudflareLast
    /\ tunnel.firstSeen # null
    /\ tunnel.result.cloudflare = "resolved"
    /\ tunnel.startedTunnel = tunnel.firstSeen
    /\ tunnel.process = "exited"
    /\ tunnel.exitCode # 0
    /\ ~tunnel.closePending
    /\ tunnel.age < EarlyUnits

-----------------------------------------------------------------------------
(* The startup timer of a cloudflared attempt *)

\* C29, as claimed: the 30-second timer of a cloudflared attempt does not
\* fire once the attempt has settled or the agent has exited: a timer that is
\* due finds the attempt pending and the agent running, and every timer that
\* fired killed an agent that was running
C29_TimerNeverFiresLate ==
    CloudflareLast =>
        /\ tunnel.timeout = 0 => (tunnel.attempt = "pending" /\ tunnel.process = "running")
        /\ tunnel.fired.cloudflare + tunnel.fired.ngrok = tunnel.killed

-----------------------------------------------------------------------------
(* The tunnel URLs *)

\* a URL an agent printed: one that matches the pattern of a provider
PrintedUrls == ScrapedUrls("ngrok") \cup ScrapedUrls("cloudflare")

\* C30, as claimed: every tunnel URL the start operations return, and every
\* tunnelUrl posted to the callback URL, is a URL that was read from the
\* output of the agent: the public URL of a tunnel that was established
C30_OnlyEstablishedUrls ==
    /\ tunnel.startedTunnel # null =>
           tunnel.startedTunnel \in PrintedUrls /\ tunnel.startedTunnel = tunnel.firstSeen
    /\ \A i \in 1..Len(callbacks) :
           \E u \in PrintedUrls : u = tunnel.firstSeen /\ callbacks[i].body = CallbackData(u)

-----------------------------------------------------------------------------
(* An agent that is not installed *)

\* the start operation of provider p threw its not-installed error
NotInstalledThrown(p) ==
    /\ tunnel.result[p] = "rejected"
    /\ tunnel.error[p] = (IF p = "ngrok" THEN "Ngrok is not installed"
                          ELSE "Cloudflared is not installed")

\* no agent was spawned for the provider started last, no timer is set and
\* no callback was sent
NothingStarted ==
    /\ tunnel.process = "none"
    /\ tunnel.alive = 0
    /\ tunnel.timeout = -1
    /\ tunnel.wait = -1
    /\ ~tunnel.interval
    /\ callbacks = <<>>

\* C31: when the agent of a provider is not installed, the start operation
\* of the provider throws a not-installed error, and it has spawned no
\* process, started no timer and sent no callback
C31_NotInstalledThrows ==
    /\ (Attempted("ngrok") /\ ~tunnel.installed.ngrok) =>
           /\ NotInstalledThrown("ngrok")
           /\ tunnel.fired.ngrok = 0
           /\ NgrokLast => NothingStarted
    /\ (Attempted("cloudflare") /\ ~tunnel.installed.cloudflared) =>
           /\ NotInstalledThrown("cloudflare")
           /\ tunnel.spawned = 0
           /\ tunnel.fired.cloudflare = 0
           /\ tunnel.timeout = -1 /\ tunnel.wait = -1 /\ ~tunnel.interval
           /\ tunnel.alive = 0
           /\ callbacks = <<>>
    /\ (Attempted("ngrok") /\ tunnel.installed.ngrok) => ~NotInstalledThrown("ngrok")
    /\ (Attempted("cloudflare") /\ tunnel.installed.cloudflared)
           => ~NotInstalledThrown("cloudflare")

\* C31: ngrok, started with no ngrok installed, has thrown, and nothing runs
C31_Witness ==
    /\ NgrokLast
    /\ ~tunnel.installed.ngrok
    /\ NotInstalledThrown("ngrok")
    /\ NothingStarted
    /\ TunnelReturned

-----------------------------------------------------------------------------
(* setupPeriodicCallback and the function it returns *)

\* periodic callbacks are enabled: CALLBACK_URL is configured and
\* CALLBACK_INTERVAL is above zero
PeriodicEnabled ==
    tunnel.config.CALLBACK_URL # <<>> /\ tunnel.config.CALLBACK_INTERVAL > 0

\* the start operation got a tunnel URL from its agent or from createTunnel
\* and returned with the stop function of setupPeriodicCallback
SetupReturned ==
    /\ tunnel.result[tunnel.provider] = "resolved"
    /\ tunnel.step = "returned"
    /\ tunnel.attempt = "resolved"

\* stopServer called the stop function of a tunnel that holds the one
\* setupPeriodicCallback returned
StopCallbackCalled ==
    /\ tunnel.stopped
    /\ tunnel.startedTunnel # null
    /\ SetupReturned

\* C32: setupPeriodicCallback schedules nothing when CALLBACK_URL is not
\* configured or CALLBACK_INTERVAL is zero or less, and calling the function it
\* returned then changes nothing; otherwise it schedules a repeating callback;
\* once the function it returned has been called, no further periodic callback
\* request is started
C32_PeriodicCallbackScheduled ==
    /\ ~PeriodicEnabled => (~tunnel.interval /\ tunnel.ticks = 0)
    /\ (SetupReturned /\ PeriodicEnabled /\ ~tunnel.stopped) => tunnel.interval
    /\ StopCallbackCalled =>
           /\ ~tunnel.interval
           /\ tunnel.ticks = tunnel.stopTicks
           /\ Len(callbacks) <= 1 + tunnel.stopTicks

\* C32: the interval fired, requests were sent, and then the stop function was
\* called and the server closed with nothing more sent
C32_Witness ==
    /\ StopCallbackCalled
    /\ PeriodicEnabled
    /\ tunnel.stopTicks > 0
    /\ Len(callbacks) = 1 + tunnel.stopTicks
    /\ tunnel.server = "closed"
    /\ ~tunnel.interval

\* C32: a tunnel started with CALLBACK_INTERVAL of zero, a callback URL
\* configured and nothing scheduled
C32_WitnessDisabled ==
    /\ SetupReturned
    /\ tunnel.config.CALLBACK_URL # <<>>
    /\ tunnel.config.CALLBACK_INTERVAL = 0
    /\ ~tunnel.interval
    /\ tunnel.stopped

-----------------------------------------------------------------------------
(* sendCallback *)

\* the headers named Authorization of a request
AuthorizationOf(request) ==
    SelectSeq(request.headers, LAMBDA h : h[1] = "Authorization")

\* every request sent is a POST, with an Authorization header exactly when
\* CALLBACK_AUTH_HEADER is configured, and then with its value
PostsWithAuthorization ==
    \A i \in 1..Len(callbacks) :
        /\ callbacks[i].method = "POST"
        /\ AuthorizationOf(callbacks[i]) =
               IF tunnel.config.CALLBACK_AUTH_HEADER = "" THEN <<>>
               ELSE <<<<"Authorization", <<tunnel.config.CALLBACK_AUTH_HEADER>>>>>>

\* the promise of the initial sendCallback settled as the claim says: resolved
\* exactly on a status of 200 to 299, rejected with 'HTTP error: <status>' on
\* another status and with the transport error when the request failed
SettledByStatus ==
    /\ (tunnel.lastCallback = "resolved")
           <=> (tunnel.lastStatus >= 200 /\ tunnel.lastStatus < 300)
    /\ (tunnel.lastStatus > 0 /\ ~(tunnel.lastStatus >= 200 /\ tunnel.lastStatus < 300))
           => tunnel.lastCallback = "HTTP error: " \o ToString(tunnel.lastStatus)
    /\ tunnel.lastStatus = 0 => tunnel.lastCallback = "transport error"

\* sendCallback was called with a tunnel URL, once by the start operation and
\* once each time the interval fired
SendCallbackCalled == tunnel.url # null /\ tunnel.attempt = "resolved"

C33_WitnessResolved ==
    /\ SendCallbackCalled
    /\ tunnel.config.CALLBACK_URL # <<>>
    /\ tunnel.config.CALLBACK_AUTH_HEADER = ""
    /\ Len(callbacks) = 1
    /\ AuthorizationOf(callbacks[1]) = <<>>
    /\ tunnel.lastStatus = 299
    /\ tunnel.lastCallback = "resolved"

-----------------------------------------------------------------------------
(* Failed callbacks *)

\* the promise of the initial sendCallback was rejected
InitialCallbackFailed == tunnel.lastCallback \notin {"none", "resolved"}

\* C34: a failed initial callback, answered with a status outside 200 to 299
\* or ended by a transport error, does not fail the tunnel start: the periodic
\* callback is still set up and the URL and the stop function are returned;
\* and a failed periodic callback does not stop the later ones, the interval
\* stays set until the stop function is called
C34_CallbackFailuresTolerated ==
    /\ InitialCallbackFailed =>
           /\ tunnel.result[tunnel.provider] = "resolved"
           /\ tunnel.step = "returned"
           /\ tunnel.started = "resolved"
           /\ tunnel.startedTunnel = tunnel.url
           /\ tunnel.url # null
           /\ (PeriodicEnabled /\ ~tunnel.stopped) => tunnel.interval
    /\ (tunnel.failed /\ ~tunnel.stopped) =>
           /\ tunnel.interval
           /\ tunnel.ticks < MaxTicks => tunnel.intervalLeft >= 0

\* C34: the initial callback was answered with status 300, the start returned
\* the tunnel, a periodic callback failed and the next one was sent
C34_Witness ==
    /\ tunnel.lastCallback = "HTTP error: 300"
    /\ tunnel.started = "resolved"
    /\ tunnel.startedTunnel = tunnel.firstSeen
    /\ tunnel.failed
    /\ tunnel.ticks = 2
    /\ tunnel.inflight = 1
    /\ Len(callbacks) = 3
    /\ ~tunnel.stopped

-----------------------------------------------------------------------------
(* stopServer *)

\* the tunnel startServer resolved with has been stopped: its periodic
\* callback is cancelled and no agent is running
TunnelStopped == ~tunnel.interval /\ tunnel.alive = 0

\* C35: stopServer first stops the tunnel when there is one, cancelling its
\* periodic callback and killing its subprocess, and then closes the HTTP
\* server; its promise resolves only after the server has closed; an exception
\* thrown while the tunnel is stopped does not prevent the server from being
\* closed
C35_StopServer ==
    /\ tunnel.server \in {"closing", "closed"} =>
           /\ tunnel.stopped
           /\ tunnel.startedTunnel # null => TunnelStopped
    /\ tunnel.stopResult = "resolved" => tunnel.server = "closed"
    /\ tunnel.stopped => tunnel.server \in {"closing", "closed"}
    /\ tunnel.stopResult # "rejected"

\* C35: stopServer cancelled a periodic callback that had fired, killed the
\* running agent, and resolved when the server had closed
C35_Witness ==
    /\ tunnel.stopped
    /\ tunnel.startedTunnel = tunnel.firstSeen
    /\ tunnel.stopTicks > 0
    /\ tunnel.process = "killed"
    /\ TunnelStopped
    /\ tunnel.server = "closed"
    /\ tunnel.stopResult = "resolved"

\* C35: process.kill threw while the tunnel was stopped, and the server has
\* closed all the same
C35_WitnessThrew ==
    /\ tunnel.stopped
    /\ tunnel.stopThrew
    /\ tunnel.server = "closed"
    /\ tunnel.stopResult = "resolved"

-----------------------------------------------------------------------------
(* config.js: the settings the module exports *)

DEFAULT_PORT == 8080

DEFAULT_NGROK_ENABLED == FALSE

DEFAULT_NGROK_AUTHTOKEN == ""

DEFAULT_NGROK_REGION == "us"

DEFAULT_CLOUDFLARE_ENABLED == FALSE

DEFAULT_CLOUDFLARE_TOKEN == ""

DEFAULT_CLOUDFLARE_HOSTNAME == ""

\* the values of JavaScript the settings take: undefined, strings, numbers
\* and booleans
JsUndefined == [type |-> "undefined", str |-> "", num |-> 0, bool |-> FALSE]

JsString(s) == [type |-> "string", str |-> s, num |-> 0, bool |-> FALSE]

JsNumber(n) == [type |-> "number", str |-> "", num |-> n, bool |-> FALSE]

JsBoolean(b) == [type |-> "boolean", str |-> "", num |-> 0, bool |-> b]

\* ToBoolean of a value
JsTruthy(v) ==
    CASE v.type = "undefined" -> FALSE
      [] v.type = "string" -> v.str # ""
      [] v.type = "number" -> v.num # 0
      [] v.type = "boolean" -> v.bool

\* a || b
JsOr(a, b) == IF JsTruthy(a) THEN a ELSE b

\* a === 'true'
IsTrueString(a) == JsBoolean(a.type = "string" /\ a.str = "true")

\* process.env: a variable is undefined or a string
Environments ==
    [PORT : {JsUndefined, JsString("3000")},
     NGROK_ENABLED : {JsUndefined, JsString("true"), JsString("false")},
     NGROK_AUTHTOKEN : {JsUndefined, JsString("env-token")},
     NGROK_REGION : {JsUndefined, JsString("eu")},
     CLOUDFLARE_ENABLED : {JsUndefined, JsString("true"), JsString("false")},
     CLOUDFLARE_TOKEN : {JsUndefined, JsString("env-cf-token")},
     CLOUDFLARE_HOSTNAME : {JsUndefined, JsString("env.example.com")}]

\* ~/.smart-relay/config.json: <<>> when there is no file or it cannot be
\* read or parsed, else <<the object JSON.parse returns>>
ConfigFiles ==
    {<<>>} \cup
    {<<f>> : f \in
        [PORT : {JsUndefined, JsNumber(9090)},
         NGROK_ENABLED : {JsUndefined, JsBoolean(TRUE), JsBoolean(FALSE)},
         NGROK_AUTHTOKEN : {JsUndefined, JsString("file-token")},
         NGROK_REGION : {JsUndefined, JsString("ap")},
         CLOUDFLARE_ENABLED : {JsUndefined, JsBoolean(TRUE), JsBoolean(FALSE)},
         CLOUDFLARE_TOKEN : {JsUndefined, JsString("file-cf-token")},
         CLOUDFLARE_HOSTNAME : {JsUndefined, JsString("file.example.com")}]}

\* let configData: the defaults, replaced by the file's object when it is read
configData(file) ==
    IF file = <<>>
    THEN [PORT |-> JsNumber(DEFAULT_PORT),
          NGROK_ENABLED |-> JsBoolean(DEFAULT_NGROK_ENABLED),
          NGROK_AUTHTOKEN |-> JsString(DEFAULT_NGROK_AUTHTOKEN),
          NGROK_REGION |-> JsString(DEFAULT_NGROK_REGION),
          CLOUDFLARE_ENABLED |-> JsBoolean(DEFAULT_CLOUDFLARE_ENABLED),
          CLOUDFLARE_TOKEN |-> JsString(DEFAULT_CLOUDFLARE_TOKEN),
          CLOUDFLARE_HOSTNAME |-> JsString(DEFAULT_CLOUDFLARE_HOSTNAME)]
    ELSE file[1]

\* the constants config.js exports, of process.env and the file
moduleExports(env, file) ==
    [PORT |-> JsOr(JsOr(env.PORT, configData(file).PORT), JsNumber(DEFAULT_PORT)),
     NGROK_ENABLED |->
         JsOr(JsOr(IsTrueString(env.NGROK_ENABLED), configData(file).NGROK_ENABLED),
              JsBoolean(DEFAULT_NGROK_ENABLED)),
     NGROK_AUTHTOKEN |->
         JsOr(JsOr(env.NGROK_AUTHTOKEN, configData(file).NGROK_AUTHTOKEN),
              JsString(DEFAULT_NGROK_AUTHTOKEN)),
     NGROK_REGION |->
         JsOr(JsOr(env.NGROK_REGION, configData(file).NGROK_REGION),
              JsString(DEFAULT_NGROK_REGION)),
     CLOUDFLARE_ENABLED |->
         JsOr(JsOr(IsTrueString(env.CLOUDFLARE_ENABLED), configData(file).CLOUDFLARE_ENABLED),
              JsBoolean(DEFAULT_CLOUDFLARE_ENABLED)),
     CLOUDFLARE_TOKEN |->
         JsOr(JsOr(env.CLOUDFLARE_TOKEN, configData(file).CLOUDFLARE_TOKEN),
              JsString(DEFAULT_CLOUDFLARE_TOKEN)),
     CLOUDFLARE_HOSTNAME |->
         JsOr(JsOr(env.CLOUDFLARE_HOSTNAME, configData(file).CLOUDFLARE_HOSTNAME),
              JsString(DEFAULT_CLOUDFLARE_HOSTNAME))]

InitConfig ==
    /\ CoreInit
    /\ fnIn \in [env : Environments, file : ConfigFiles]
    /\ fnOut = <<>>
    /\ tunnel = NoTunnel
    /\ callbacks = <<>>

\* require('./config'): the module is evaluated once
LoadConfig ==
    /\ fnOut = <<>>
    /\ fnOut' = <<moduleExports(fnIn.env, fnIn.file)>>
    /\ UNCHANGED <<coreVars, fnIn, tunnelVars>>

NextConfig == LoadConfig

SpecConfig == InitConfig /\ [][NextConfig]_vars

SettingNames ==
    {"PORT", "NGROK_ENABLED", "NGROK_AUTHTOKEN", "NGROK_REGION",
     "CLOUDFLARE_ENABLED", "CLOUDFLARE_TOKEN", "CLOUDFLARE_HOSTNAME"}

\* a value as it is written in the environment or in JSON
Written(v) ==
    CASE v.type = "undefined" -> "undefined"
      [] v.type = "string" -> v.str
      [] v.type = "number" -> ToString(v.num)
      [] v.type = "boolean" -> IF v.bool THEN "true" ELSE "false"

\* the value the file gives a setting: undefined without a file
FileValue(k) == IF fnIn.file = <<>> THEN JsUndefined ELSE fnIn.file[1][k]

\* the value the claim gives a setting: the environment's when it is set,
\* else the file's when it has one, else the default
ClaimedValue(k) ==
    IF fnIn.env[k] # JsUndefined THEN fnIn.env[k]
    ELSE IF FileValue(k) # JsUndefined THEN FileValue(k)
    ELSE configData(<<>>)[k]

\* C36: for every setting the effective value is the environment value when
\* one is set, otherwise the value of the config file, otherwise the default
\* (8080 for PORT); an environment value always overrides the file's,
\* NGROK_ENABLED=false and CLOUDFLARE_ENABLED=false over a file's true included
C36_EnvOverridesFile ==
    fnOut # <<>> =>
        \A k \in SettingNames : Written(fnOut[1][k]) = Written(ClaimedValue(k))

\* the same of every setting but the two flags with 'false' in the environment
C36_EnvOverridesFileButFalse ==
    fnOut # <<>> =>
        \A k \in SettingNames :
            fnIn.env[k] # JsString("false")
                => Written(fnOut[1][k]) = Written(ClaimedValue(k))

\* NGROK_ENABLED=false in the environment, true in the file, and true exported
C36_FalseDoesNotOverride ==
    /\ fnOut # <<>>
    /\ fnIn.env.NGROK_ENABLED = JsString("false")
    /\ FileValue("NGROK_ENABLED") = JsBoolean(TRUE)
    /\ fnOut[1].NGROK_ENABLED = JsBoolean(TRUE)
====
